---- MODULE Spec2Model ----
(***************************************************************************)
(* Nova chatbot backend: the short-term buffer (memory/short_term.py), the *)
(* profile store (memory/long_term.py), the semantic memory                *)
(* (memory/vector_store.py), the orchestrator (chatbot.py) and the routes  *)
(* of app.py that write the profile.                                       *)
(*                                                                         *)
(* Python str values are sequences of one-character strings, so that       *)
(* strip, lower, split and slicing are computed as Python computes them.   *)
(* An Optional value is a record [null, v]: None is distinct from "" / 0.  *)
(***************************************************************************)
EXTENDS Integers, Sequences, FiniteSets, TLC

\* ------------------------------------------------------------------ bounds
\* ShortTermMemory: number of successful add calls explored
MaxAdds == 3
\* ShortTermMemory: largest configured max_turns explored (0..MaxTurnsCfg)
MaxTurnsCfg == 2
\* VectorMemory: number of mutating calls explored
MaxVecOps == 2
\* application: number of chat requests and of update_profile requests
MaxChats == 1
MaxRoutes == 1
\* GeminiClient: number of generate calls and largest retry_count explored
MaxGenerates == 2
MaxRetry == 1

\* ------------------------------------------------------- Optional values
None == [null |-> TRUE, v |-> <<>>]
Some(x) == [null |-> FALSE, v |-> x]
NoneInt == [null |-> TRUE, v |-> 0]
\* Python truthiness of an Optional[str] / Optional[int]
TruthyStr(o) == ~o.null /\ o.v # <<>>
TruthyInt(o) == ~o.null /\ o.v # 0

\* ------------------------------------------------------------ Python str
Whitespace == {" ", "\t", "\n", "\r"}

RECURSIVE lstrip_chars(_, _)
lstrip_chars(s, cs) ==
    IF s # <<>> /\ Head(s) \in cs THEN lstrip_chars(Tail(s), cs) ELSE s

RECURSIVE rstrip_chars(_, _)
rstrip_chars(s, cs) ==
    IF s # <<>> /\ s[Len(s)] \in cs
    THEN rstrip_chars(SubSeq(s, 1, Len(s) - 1), cs) ELSE s

\* str.strip(chars): both ends
strip_chars(s, cs) == rstrip_chars(lstrip_chars(s, cs), cs)

\* str.strip()
strip(s) == strip_chars(s, Whitespace)

\* seq[start:] with Python's index rules (a negative start counts from the
\* end, and -0 is 0)
slice_from(s, start) ==
    LET n == Len(s)
        b == IF start < 0 THEN (IF n + start < 0 THEN 0 ELSE n + start)
             ELSE (IF start > n THEN n ELSE start)
    IN SubSeq(s, b + 1, n)

\* seq[:stop] for stop >= 0
slice_to(s, stop) == SubSeq(s, 1, IF stop > Len(s) THEN Len(s) ELSE stop)

\* list.pop(i), 0-based i
pop_at(s, i) == SubSeq(s, 1, i) \o SubSeq(s, i + 2, Len(s))

\* str.lower() on the ASCII letters
Upper == <<"A", "B", "C", "D", "E", "F", "G", "H", "I", "J", "K", "L", "M",
           "N", "O", "P", "Q", "R", "S", "T", "U", "V", "W", "X", "Y", "Z">>
Lower == <<"a", "b", "c", "d", "e", "f", "g", "h", "i", "j", "k", "l", "m",
           "n", "o", "p", "q", "r", "s", "t", "u", "v", "w", "x", "y", "z">>
lower_char(c) ==
    IF \E i \in 1..26 : Upper[i] = c
    THEN Lower[CHOOSE i \in 1..26 : Upper[i] = c]
    ELSE c
lower(s) == [i \in 1..Len(s) |-> lower_char(s[i])]

\* sep occurs in s at position i (1-based)
occurs_at(s, sep, i) ==
    i + Len(sep) - 1 <= Len(s) /\ SubSeq(s, i, i + Len(sep) - 1) = sep

\* "sep in s"
contains(s, sep) == \E i \in 1..Len(s) : occurs_at(s, sep, i)

\* s.find(sep) as a 1-based position, 0 when sep does not occur
find(s, sep) ==
    IF contains(s, sep)
    THEN CHOOSE i \in 1..Len(s) :
            occurs_at(s, sep, i) /\ \A j \in 1..(i - 1) : ~occurs_at(s, sep, j)
    ELSE 0

\* s.split(sep)[-1]: what follows the last piece boundary, s itself when sep
\* does not occur (pieces are cut left to right, without overlap)
RECURSIVE split_last(_, _)
split_last(s, sep) ==
    IF find(s, sep) = 0 THEN s
    ELSE split_last(SubSeq(s, find(s, sep) + Len(sep), Len(s)), sep)

\* s.split(sep)[0]
split_first(s, sep) ==
    IF find(s, sep) = 0 THEN s ELSE SubSeq(s, 1, find(s, sep) - 1)

\* s.split(): the whitespace-delimited tokens
RECURSIVE split_ws(_)
split_ws(s) ==
    LET t == lstrip_chars(s, Whitespace) IN
    IF t = <<>> THEN <<>>
    ELSE LET n == IF \E i \in 1..Len(t) : t[i] \in Whitespace
                  THEN (CHOOSE i \in 1..Len(t) :
                           t[i] \in Whitespace
                           /\ \A j \in 1..(i - 1) : t[j] \notin Whitespace) - 1
                  ELSE Len(t)
         IN <<SubSeq(t, 1, n)>> \o split_ws(SubSeq(t, n + 1, Len(t)))

\* ----------------------------------------------------------- Python values
\* a value with its type: "none", "str" (v the characters), "list" (v the
\* elements), "int" (v the number) and "json" (the text json.dumps made of v)
PyNone == [t |-> "none", v |-> <<>>]
PyStr(s) == [t |-> "str", v |-> s]
PyList(l) == [t |-> "list", v |-> l]
PyInt(n) == [t |-> "int", v |-> n]
PyEq(a, b) == a.t = b.t /\ a.v = b.v
\* bool(x)
truthy(x) ==
    CASE x.t = "none" -> FALSE
      [] x.t = "int" -> x.v # 0
      [] OTHER -> x.v # <<>>
json_dumps(x) == [t |-> "json", v |-> x.v]

\* ------------------------------------------------------------ long_term.py
\* the columns of user_profile that hold profile fields
Columns == <<"name", "location", "preferences", "tone">>
ALLOWED_FIELDS == {"name", "location", "preferences", "tone"}

NoRow == [present |-> FALSE, name |-> PyNone, location |-> PyNone,
          preferences |-> PyNone, tone |-> PyNone]
EmptyRow == [NoRow EXCEPT !.present = TRUE]

\* get_user_profile: {} for a missing row, else the four fields with
\* preferences decoded (a text that is no JSON decodes to [] in the except
\* branch)
get_user_profile(db, user_id) ==
    LET row == db[user_id] IN
    IF ~row.present THEN [present |-> FALSE, name |-> PyNone,
                          location |-> PyNone, preferences |-> PyNone,
                          tone |-> PyNone]
    ELSE [present |-> TRUE, name |-> row.name, location |-> row.location,
          preferences |-> IF row.preferences.t = "json"
                          THEN PyList(row.preferences.v) ELSE PyList(<<>>),
          tone |-> row.tone]

\* dict.get(field) on the mapping get_user_profile returned
profile_get(profile, field) ==
    IF profile.present /\ field \in {"name", "location", "preferences", "tone"}
    THEN profile[field] ELSE PyNone

\* mutant: every field name is let through to the UPDATE statement
field_allowed_any(field) == TRUE

\* field in ALLOWED_FIELDS
field_allowed(field) == field \in ALLOWED_FIELDS

\* sqlite3 binds None, int and str parameters and refuses list and dict
bindable(value) == value.t \in {"none", "int", "str", "json"}

\* mutant: the failure path commits what the connection had written
rollback_commits(db, written) == written

\* conn.rollback(): the table as it was before the connection's first write
rollback(db, written) == db

\* upsert_user_profile. storage_ok = FALSE is sqlite3 raising inside the try.
\* out is "ValueError" (raised to the caller), "True" or "False".
upsert_user_profile(db, user_id, field, value, storage_ok) ==
    IF ~field_allowed(field) THEN [out |-> "ValueError", db |-> db]
    ELSE LET inserted == IF db[user_id].present THEN db
                         ELSE [db EXCEPT ![user_id] = EmptyRow]
             bad_prefs == field = "preferences" /\ value.t \notin {"list", "dict"}
             stored == IF field = "preferences" THEN json_dumps(value) ELSE value
             no_column == \A i \in 1..Len(Columns) : Columns[i] # field
         IN IF ~storage_ok \/ bad_prefs \/ no_column \/ ~bindable(stored)
            THEN [out |-> "False", db |-> rollback(db, inserted)]
            ELSE [out |-> "True",
                  db |-> [inserted EXCEPT ![user_id][field] = stored]]

\* dict.keys() of an updates dict, held as its items in insertion order
keys(updates) == { updates[i].field : i \in 1..Len(updates) }

\* the row after "UPDATE user_profile SET f1 = ?, f2 = ?, ..." with the
\* values of items i.. of the dict
RECURSIVE set_clauses(_, _, _)
set_clauses(row, updates, i) ==
    IF i > Len(updates) THEN row
    ELSE LET field == updates[i].field
             value == updates[i].value
         IN set_clauses([row EXCEPT ![field] = IF field = "preferences"
                                               THEN json_dumps(value)
                                               ELSE value],
                        updates, i + 1)

\* mutant: the field names are not validated before the connection is opened
invalid_fields_none(updates) == {}

\* set(updates.keys()) - ALLOWED_FIELDS
invalid_fields(updates) == keys(updates) \ ALLOWED_FIELDS

\* update_user_profile, with storage_ok and out as in upsert_user_profile
update_user_profile(db, user_id, updates, storage_ok) ==
    IF invalid_fields(updates) # {} THEN [out |-> "ValueError", db |-> db]
    ELSE LET inserted == IF db[user_id].present THEN db
                         ELSE [db EXCEPT ![user_id] = EmptyRow]
             bad_prefs == \E i \in 1..Len(updates) :
                             /\ updates[i].field = "preferences"
                             /\ updates[i].value.t \notin {"list", "dict"}
             no_column == \E i \in 1..Len(updates) :
                             \A j \in 1..Len(Columns) :
                                Columns[j] # updates[i].field
             unbindable == \E i \in 1..Len(updates) :
                              /\ updates[i].field # "preferences"
                              /\ ~bindable(updates[i].value)
         IN IF ~storage_ok \/ bad_prefs \/ no_column \/ unbindable
            THEN [out |-> "False", db |-> rollback(db, inserted)]
            ELSE [out |-> "True",
                  db |-> [inserted EXCEPT
                            ![user_id] = set_clauses(@, updates, 1)]]

\* ------------------------------------------------------ ShortTermMemory
Roles == {"user", "assistant", "system"}

NonSystem(msgs) == SelectSeq(msgs, LAMBDA m : m.role # "system")
SystemOnly(msgs) == SelectSeq(msgs, LAMBDA m : m.role = "system")

RECURSIVE sum_tokens(_)
sum_tokens(msgs) ==
    IF msgs = <<>> THEN 0
    ELSE (Len(Head(msgs).content) \div 4) + sum_tokens(Tail(msgs))

\* mutant: the oldest message is dropped whatever its role
first_message(msgs, i) == IF msgs = <<>> THEN 0 ELSE 1

\* index (1-based) of the first non-system message, 0 when there is none
RECURSIVE first_non_system(_, _)
first_non_system(msgs, i) ==
    IF i > Len(msgs) THEN 0
    ELSE IF msgs[i].role # "system" THEN i
    ELSE first_non_system(msgs, i + 1)

\* the while loop of _trim_by_tokens; hang = the loop cannot make progress
\* (no non-system message is left to pop while the condition stays true)
RECURSIVE trim_loop(_, _, _, _)
trim_loop(msgs, meta, est, max) ==
    IF est > max /\ Len(msgs) > 1
    THEN LET i == first_non_system(msgs, 1) IN
         IF i = 0
         THEN [hang |-> TRUE, messages |-> msgs, metadata |-> meta]
         ELSE trim_loop(pop_at(msgs, i - 1),
                        IF i - 1 < Len(meta) THEN pop_at(meta, i - 1) ELSE meta,
                        est - (Len(msgs[i].content) \div 4), max)
    ELSE [hang |-> FALSE, messages |-> msgs, metadata |-> meta]

trim_by_tokens(m) ==
    LET r == trim_loop(m.messages, m.metadata, sum_tokens(m.messages),
                       m.max_tokens.v)
    IN [hang |-> r.hang,
        mem |-> [m EXCEPT !.messages = r.messages, !.metadata = r.metadata]]

\* conversation_msgs[-self.max_turns:]
keep_last(conv, max_turns) == slice_from(conv, 0 - max_turns)

trim_messages(m) ==
    LET system_msgs == SystemOnly(m.messages)
        conv == NonSystem(m.messages)
        over == Len(conv) > m.max_turns
        removed_count == Len(conv) - m.max_turns
        conv2 == IF over THEN keep_last(conv, m.max_turns) ELSE conv
        meta2 == IF over THEN slice_from(m.metadata, removed_count)
                 ELSE m.metadata
        m2 == [m EXCEPT !.messages = system_msgs \o conv2, !.metadata = meta2]
    IN IF TruthyInt(m.max_tokens) THEN trim_by_tokens(m2)
       ELSE [hang |-> FALSE, mem |-> m2]

\* mutant: the role check is missing and only the empty string is refused
add_rejects_weak(role, content) == content = <<>>

\* the two checks at the top of add
add_rejects(role, content) ==
    \/ content = <<>>
    \/ strip(content) = <<>>
    \/ role \notin Roles

\* ShortTermMemory.add: out is "ok", "ValueError" or "hang"
add(m, role, content, now) ==
    IF add_rejects(role, content)
    THEN [out |-> "ValueError", mem |-> m]
    ELSE LET appended ==
                 [m EXCEPT
                    !.messages = Append(@, [role |-> role,
                                            content |-> strip(content)]),
                    !.metadata = Append(@, [timestamp |-> now,
                                            char_count |-> Len(content)])]
             t == trim_messages(appended)
         IN [out |-> IF t.hang THEN "hang" ELSE "ok", mem |-> t.mem]

new_memory(max_turns, max_tokens) ==
    [max_turns |-> max_turns, max_tokens |-> max_tokens,
     messages |-> <<>>, metadata |-> <<>>]

\* ShortTermMemory.get returns a new list that holds the message dicts of
\* self.messages themselves (list.copy() and the list comprehension copy the
\* list, not its elements): the positions in m.messages, in order, of the
\* dicts in the returned list
get_shared(m, include_system) ==
    LET all == [i \in 1..Len(m.messages) |-> i] IN
    IF include_system THEN all
    ELSE SelectSeq(all, LAMBDA i : m.messages[i].role # "system")

\* the buffer after the caller changed the list get returned: "append" and
\* "pop" change the caller's list only, "set_role" and "set_content" assign
\* a key of the first dict in it (an IndexError of the caller when the list
\* is empty)
caller_mutates(m, returned, mutation, value) ==
    IF mutation \in {"append", "pop"} \/ returned = <<>> THEN m
    ELSE IF mutation = "set_role"
    THEN [m EXCEPT !.messages[returned[1]].role = value]
    ELSE [m EXCEPT !.messages[returned[1]].content = value]

\* ShortTermMemory.clear
clear(m, keep_system) ==
    IF keep_system
    THEN LET system_msgs == SystemOnly(m.messages) IN
         [m EXCEPT !.messages = system_msgs,
                   !.metadata = slice_to(@, Len(system_msgs))]
    ELSE [m EXCEPT !.messages = <<>>, !.metadata = <<>>]

\* ShortTermMemory.set_system_message: list.insert(0, ...) on both lists
set_system_message(m, content, now) ==
    [m EXCEPT
       !.messages = <<[role |-> "system", content |-> content]>>
                    \o NonSystem(@),
       !.metadata = <<[timestamp |-> now, char_count |-> Len(content)]>> \o @]

\* json.dump / json.load of the values a buffer holds: a str is a JSON
\* string, an int a JSON number, None is null
JsonString(s) == [j |-> "string", v |-> s, n |-> 0]
JsonNumber(n) == [j |-> "number", v |-> <<>>, n |-> n]
JsonNull == [j |-> "null", v |-> <<>>, n |-> 0]
dump_optional_int(x) == IF x.null THEN JsonNull ELSE JsonNumber(x.v)
load_optional_int(x) == IF x.j = "null" THEN NoneInt ELSE Some(x.n)

\* export_to_json: the document written to the file
export_to_json(m) ==
    [messages |-> [i \in 1..Len(m.messages) |->
                     [role |-> JsonString(m.messages[i].role),
                      content |-> JsonString(m.messages[i].content)]],
     metadata |-> [i \in 1..Len(m.metadata) |->
                     [timestamp |-> JsonNumber(m.metadata[i].timestamp),
                      char_count |-> JsonNumber(m.metadata[i].char_count)]],
     config |-> [max_turns |-> JsonNumber(m.max_turns),
                 max_tokens |-> dump_optional_int(m.max_tokens)]]

load_messages(doc) ==
    [i \in 1..Len(doc.messages) |->
        [role |-> doc.messages[i].role.v, content |-> doc.messages[i].content.v]]
load_metadata(doc) ==
    [i \in 1..Len(doc.metadata) |->
        [timestamp |-> doc.metadata[i].timestamp.n,
         char_count |-> doc.metadata[i].char_count.n]]

\* mutant: the imported messages and metadata are added to those held
import_from_json_merging(m, doc) ==
    [messages |-> m.messages \o load_messages(doc),
     metadata |-> m.metadata \o load_metadata(doc),
     max_turns |-> doc.config.max_turns.n,
     max_tokens |-> load_optional_int(doc.config.max_tokens)]

\* import_from_json of a document export_to_json wrote (all keys present)
import_from_json(m, doc) ==
    [messages |-> load_messages(doc),
     metadata |-> load_metadata(doc),
     max_turns |-> doc.config.max_turns.n,
     max_tokens |-> load_optional_int(doc.config.max_tokens)]

\* --------------------------------------------------------- VectorMemory
\* retrieve_memories fetches k * OverFetch neighbours before filtering
OverFetch == 10

\* SentenceTransformer.encode of one text. The embedding model is an external
\* collaborator: all that is used of it is that it is a function of the text.
\* Here a text is placed on a line at the sum of its letters' ranks.
Letters == <<"a", "b", "c", "d", "e", "f", "g", "h", "i", "j", "k", "l", "m",
             "n", "o", "p", "q", "r", "s", "t", "u", "v", "w", "x", "y", "z">>
LetterRank(c) ==
    IF \E i \in 1..Len(Letters) : Letters[i] = c
    THEN CHOOSE i \in 1..Len(Letters) : Letters[i] = c
    ELSE 0
RECURSIVE encode(_)
encode(text) ==
    IF text = <<>> THEN 0 ELSE LetterRank(Head(text)) + encode(Tail(text))

encode_all(texts) == [i \in 1..Len(texts) |-> encode(texts[i])]

\* IndexFlatL2: squared L2 distance
l2(a, b) == (a - b) * (a - b)

\* what IndexFlatL2.search puts in a slot it cannot fill
NoNeighbour == [dist |-> 1000000, idx |-> -1]

\* the neighbours found so far, nearest first, with e put after every
\* neighbour that is not farther (so that equal distances stay by lower idx)
insert_neighbour(sorted, e) ==
    LET p == Cardinality({j \in 1..Len(sorted) : sorted[j].dist <= e.dist})
    IN SubSeq(sorted, 1, p) \o <<e>> \o SubSeq(sorted, p + 1, Len(sorted))

RECURSIVE all_neighbours(_, _, _)
all_neighbours(index, q, i) ==
    IF i = 0 THEN <<>>
    ELSE insert_neighbour(all_neighbours(index, q, i - 1),
                          [dist |-> l2(index[i], q), idx |-> i - 1])

\* IndexFlatL2.search(q, k): the k nearest stored vectors as (dist, idx) with
\* 0-based idx, nearest first, equal distances by lower idx; slots beyond
\* ntotal are filled with idx -1
index_search(index, q, k) ==
    LET sorted == all_neighbours(index, q, Len(index))
    IN [r \in 1..k |-> IF r <= Len(sorted) THEN sorted[r] ELSE NoNeighbour]

\* the two artifacts on disk: what each holds, and whether it is "missing",
\* "unreadable" (reading it raises) or "ok"
FileStates == {"missing", "unreadable", "ok"}
NoFiles == [index |-> <<>>, data |-> <<>>,
            index_file |-> "missing", data_file |-> "missing"]

\* _load_or_create: the pair read from the two files when both exist and
\* both reads succeed; the empty pair of _create_new when one is not there,
\* or when a read raised (the except branch). Nothing compares the two.
load_or_create(files) ==
    IF files.index_file # "missing" /\ files.data_file # "missing"
    THEN IF files.index_file = "ok" /\ files.data_file = "ok"
         THEN [index |-> files.index, data |-> files.data, disk |-> files]
         ELSE [index |-> <<>>, data |-> <<>>, disk |-> files]
    ELSE [index |-> <<>>, data |-> <<>>, disk |-> files]

new_vector_memory == load_or_create(NoFiles)

\* _create_new
create_new(vm) == [vm EXCEPT !.index = <<>>, !.data = <<>>]

\* faiss.write_index(self.index, self.index_path)
write_index(vm) ==
    [vm EXCEPT !.disk.index = vm.index, !.disk.index_file = "ok"]

\* pickle.dump(self.data, f)
write_data(vm) ==
    [vm EXCEPT !.disk.data = vm.data, !.disk.data_file = "ok"]

\* _save: the index artifact, then the data artifact
save(vm) == write_data(write_index(vm))

\* self.index.add(embeddings)
index_add(vm, vecs) == [vm EXCEPT !.index = @ \o vecs]

\* self.data.append(memory_data), once per item
data_append(vm, items) == [vm EXCEPT !.data = @ \o items]

EmptyDict == "{}"

memory_data(user_id, text, now, metadata) ==
    [user_id |-> user_id, text |-> text, timestamp |-> now,
     metadata |-> metadata]

\* store_memory refuses this text before taking the lock
store_refuses(text) == text = <<>> \/ strip(text) = <<>>

\* store_memory; metadata is an Optional dict
store_memory(vm, user_id, text, metadata, auto_save, now) ==
    IF store_refuses(text) THEN [ret |-> FALSE, vm |-> vm]
    ELSE LET v1 == index_add(vm, <<encode(strip(text))>>)
             md == IF metadata.null \/ metadata.v = EmptyDict
                   THEN EmptyDict ELSE metadata.v
             v2 == data_append(v1, <<memory_data(user_id, strip(text), now, md)>>)
         IN [ret |-> TRUE, vm |-> IF auto_save THEN save(v2) ELSE v2]

\* [t.strip() for t in texts if t and t.strip()]
RECURSIVE non_blank(_)
non_blank(texts) ==
    IF texts = <<>> THEN <<>>
    ELSE IF store_refuses(Head(texts)) THEN non_blank(Tail(texts))
    ELSE <<strip(Head(texts))>> \o non_blank(Tail(texts))

\* the records store_batch appends for the filtered texts; metadata_list is an
\* Optional list of dicts
batch_items(user_id, texts, metadata_list, now) ==
    LET ml == IF metadata_list.null \/ metadata_list.v = <<>>
              THEN [i \in 1..Len(texts) |-> EmptyDict]
              ELSE metadata_list.v
    IN [i \in 1..Len(texts) |->
          memory_data(user_id, texts[i], now + i - 1,
                      IF i - 1 < Len(ml) THEN ml[i] ELSE EmptyDict)]

store_batch(vm, user_id, texts, metadata_list, now) ==
    LET kept == non_blank(texts) IN
    IF texts = <<>> \/ kept = <<>> THEN [ret |-> 0, vm |-> vm]
    ELSE LET v1 == index_add(vm, encode_all(kept))
             v2 == data_append(v1, batch_items(user_id, kept, metadata_list, now))
         IN [ret |-> Len(kept), vm |-> save(v2)]

\* list.sort(key=timestamp, reverse=True): a stable sort, so records with
\* equal stamps keep their order
RECURSIVE insert_newest_first(_, _)
insert_newest_first(sorted, x) ==
    IF sorted = <<>> THEN <<x>>
    ELSE IF Head(sorted).timestamp >= x.timestamp
         THEN <<Head(sorted)>> \o insert_newest_first(Tail(sorted), x)
         ELSE <<x>> \o sorted

RECURSIVE sort_newest_first(_)
sort_newest_first(items) ==
    IF items = <<>> THEN <<>>
    ELSE insert_newest_first(
             sort_newest_first(SubSeq(items, 1, Len(items) - 1)),
             items[Len(items)])

\* get_user_memories; limit is an Optional int, and 0 is no limit
get_user_memories(vm, user_id, limit, sort_by_time) ==
    LET user_memories == SelectSeq(vm.data, LAMBDA m : m.user_id = user_id)
        sorted == IF sort_by_time THEN sort_newest_first(user_memories)
                  ELSE user_memories
    IN IF TruthyInt(limit) THEN slice_to(sorted, limit.v) ELSE sorted

\* mutant: the comparison is inverted, so the user's own records survive
RECURSIVE indices_to_keep_inverted(_, _, _)
indices_to_keep_inverted(data, user_id, i) ==
    IF i > Len(data) THEN <<>>
    ELSE IF data[i].user_id = user_id
         THEN <<i>> \o indices_to_keep_inverted(data, user_id, i + 1)
         ELSE indices_to_keep_inverted(data, user_id, i + 1)

\* indices_to_keep, as 1-based positions in data
RECURSIVE indices_to_keep(_, _, _)
indices_to_keep(data, user_id, i) ==
    IF i > Len(data) THEN <<>>
    ELSE IF data[i].user_id # user_id
         THEN <<i>> \o indices_to_keep(data, user_id, i + 1)
         ELSE indices_to_keep(data, user_id, i + 1)

\* mutant: the new index is filled from every record, not from the survivors
rebuild_index_all(data, keep) == [i \in 1..Len(data) |-> encode(data[i].text)]

\* the new index of delete_user_memories: each survivor re-encoded, in order
rebuild_index(data, keep) ==
    [i \in 1..Len(keep) |-> encode(data[keep[i]].text)]

rebuild_data(data, keep) == [i \in 1..Len(keep) |-> data[keep[i]]]

delete_user_memories(vm, user_id) ==
    LET keep == indices_to_keep(vm.data, user_id, 1)
        deleted_count == Len(vm.data) - Len(keep)
    IN IF deleted_count = 0 THEN [ret |-> 0, vm |-> vm]
       ELSE [ret |-> deleted_count,
             vm |-> save([vm EXCEPT !.index = rebuild_index(vm.data, keep),
                                    !.data = rebuild_data(vm.data, keep)])]

clear_all(vm) == save(create_new(vm))

\* self.data[idx] for an idx that passed "idx < len(self.data)": a negative
\* idx counts from the end
data_at(data, idx) == IF idx < 0 THEN data[Len(data) + idx + 1] ELSE data[idx + 1]

\* mutant: the user filter is missing
wrong_user_never(memory, user_id) == FALSE

\* the user filter of retrieve_memories: TRUE means skip this neighbour
wrong_user(memory, user_id) == memory.user_id # user_id

\* the loop over zip(distances[0], indices[0])
RECURSIVE collect(_, _, _, _, _, _)
collect(cands, data, user_id, k, min_similarity, results) ==
    IF cands = <<>> THEN results
    ELSE LET c == Head(cands)
             rest == Tail(cands)
         IN IF ~(c.idx < Len(data))
            THEN collect(rest, data, user_id, k, min_similarity, results)
            ELSE LET memory == data_at(data, c.idx) IN
                 IF wrong_user(memory, user_id)
                 THEN collect(rest, data, user_id, k, min_similarity, results)
                 ELSE IF ~min_similarity.null /\ c.dist > min_similarity.v
                 THEN collect(rest, data, user_id, k, min_similarity, results)
                 ELSE LET result == [user_id |-> memory.user_id,
                                     text |-> memory.text,
                                     timestamp |-> memory.timestamp,
                                     metadata |-> memory.metadata,
                                     distance |-> c.dist,
                                     similarity |-> <<1, 1 + c.dist>>]
                          results2 == Append(results, result)
                      IN IF Len(results2) >= k THEN results2
                         ELSE collect(rest, data, user_id, k, min_similarity,
                                      results2)

\* mutant: the search covers every stored vector
search_k_all(data, k) == Len(data)

\* search_k = min(len(self.data), k * 10)
search_k(data, k) == IF Len(data) < k * OverFetch THEN Len(data) ELSE k * OverFetch

\* mutant: only the empty store is answered without a search
retrieve_refuses_empty_store(data, query) == data = <<>>

\* "if not self.data or not query.strip()"
retrieve_refuses(data, query) == data = <<>> \/ strip(query) = <<>>

\* retrieve_memories; similarity 1 / (1 + distance) is kept as the pair
\* <<numerator, denominator>>. IndexFlatL2.search refuses k <= 0 and the
\* except branch turns that into [].
retrieve_memories(vm, user_id, query, k, min_similarity) ==
    IF retrieve_refuses(vm.data, query) THEN <<>>
    ELSE IF search_k(vm.data, k) <= 0 THEN <<>>
    ELSE collect(index_search(vm.index, encode(strip(query)), search_k(vm.data, k)),
                 vm.data, user_id, k, min_similarity, <<>>)

\* --------------------------------------------------------------- chatbot.py
\* _get_session creates ShortTermMemory(max_turns=12)
SessionMaxTurns == 12
\* _build_context: retrieve_memories(user_id, message, k=3), history[-6:]
ContextK == 3
HistoryTail == 6
\* chat: message[:120]
SummaryLen == 120

MyNameIs == <<"m", "y", " ", "n", "a", "m", "e", " ", "i", "s">>
ILiveIn == <<"i", " ", "l", "i", "v", "e", " ", "i", "n">>
NamePunct == {".", ",", "!", "?"}
SummaryPrefix ==
    <<"U", "s", "e", "r", " ", "d", "i", "s", "c", "u", "s", "s", "e", "d",
      ":", " ">>
\* the reply to a blank message
SayAgain ==
    <<"C", "o", "u", "l", "d", " ", "y", "o", "u", " ", "s", "a", "y", " ",
      "t", "h", "a", "t", " ", "a", "g", "a", "i", "n", "?">>
ConflictHead ==
    <<"I", " ", "r", "e", "m", "e", "m", "b", "e", "r", " ", "y", "o", "u",
      " ", "s", "a", "i", "d", " ">>
ConflictMid ==
    <<" ", "e", "a", "r", "l", "i", "e", "r", ".", " ", "W", "a", "n", "t",
      " ", "m", "e", " ", "t", "o", " ", "u", "p", "d", "a", "t", "e", " ",
      "i", "t", " ", "t", "o", " ">>
ConflictTail == <<"?">>

NoSession == [present |-> FALSE, mem |-> new_memory(SessionMaxTurns, NoneInt)]

\* _get_session: the sessions mapping after the call
get_session(sessions, user_id) ==
    IF sessions[user_id].present THEN sessions
    ELSE [sessions EXCEPT ![user_id] =
             [present |-> TRUE, mem |-> new_memory(SessionMaxTurns, NoneInt)]]

\* ShortTermMemory.get
get(m, include_system) ==
    IF include_system THEN m.messages ELSE NonSystem(m.messages)

\* str.capitalize() of a role name
capitalize(role) ==
    CASE role = "user" -> "User"
      [] role = "assistant" -> "Assistant"
      [] role = "system" -> "System"
      [] OTHER -> role

Line(kind, key, text) == [kind |-> kind, key |-> key, text |-> text]

\* the "- k: v" lines of the profile block, for the fields from position i on
RECURSIVE profile_lines(_, _)
profile_lines(profile, i) ==
    IF i > Len(Columns) THEN <<>>
    ELSE LET k == Columns[i] v == profile[k] IN
         (IF truthy(v) THEN <<Line("entry", k, v)>> ELSE <<>>)
            \o profile_lines(profile, i + 1)

\* _build_context: the lines that are joined into the prompt
build_context(profile, memories, history, message) ==
    <<Line("system_prompt", "", <<>>), Line("instruction", "", <<>>),
      Line("rule", "", <<>>)>>
    \o (IF profile.present
        THEN <<Line("label", "USER PROFILE:", <<>>)>>
             \o profile_lines(profile, 1) \o <<Line("blank", "", <<>>)>>
        ELSE <<>>)
    \o (IF memories # <<>>
        THEN <<Line("label", "RELEVANT PAST CONTEXT:", <<>>)>>
             \o [i \in 1..Len(memories) |-> Line("entry", "", memories[i].text)]
             \o <<Line("blank", "", <<>>)>>
        ELSE <<>>)
    \o (IF history # <<>>
        THEN <<Line("label", "CURRENT CONVERSATION:", <<>>)>>
             \o LET tail == slice_from(history, 0 - HistoryTail) IN
                [i \in 1..Len(tail) |->
                    Line("entry", capitalize(tail[i].role), tail[i].content)]
             \o <<Line("blank", "", <<>>)>>
        ELSE <<>>)
    \o <<Line("rule", "", <<>>), Line("user", "User", message),
         Line("cue", "Nova:", <<>>)>>

\* _extract_profile_updates: the updates in dict order; raised is the
\* IndexError of split()[0] on a text without a token
extract_profile_updates(message) ==
    LET msg == lower(message)
        has_name == contains(msg, MyNameIs)
        tokens == split_ws(strip(split_last(message, MyNameIs)))
        has_location == contains(msg, ILiveIn)
        location == split_first(strip(split_last(message, ILiveIn)), <<".">>)
    IN IF has_name /\ tokens = <<>> THEN [raised |-> TRUE, updates |-> <<>>]
       ELSE [raised |-> FALSE,
             updates |->
                (IF has_name
                 THEN <<[field |-> "name",
                         value |-> PyStr(strip_chars(tokens[1], NamePunct))]>>
                 ELSE <<>>)
                \o (IF has_location
                    THEN <<[field |-> "location", value |-> PyStr(location)]>>
                    ELSE <<>>)]

\* mutant: only the empty message is refused ("if not message")
blank_message_empty_only(message) == message = <<>>

\* chat: "if not message.strip()"
blank_message(message) == strip(message) = <<>>

\* "existing and existing != value": chat line 126, update_profile line 111
conflicts(existing, value) == truthy(existing) /\ ~PyEq(existing, value)

\* the dict chat returns: keys are the keys it has
Reply(response) ==
    [keys |-> {"response"}, response |-> response, user_id |-> "",
     timestamp |-> 0, profile_updated |-> FALSE]
FullReply(response, user_id, now, profile_updated) ==
    [keys |-> {"response", "user_id", "timestamp", "profile_updated"},
     response |-> response, user_id |-> user_id, timestamp |-> now,
     profile_updated |-> profile_updated]
\* the /chat route: ChatResponse(**result) needs response, user_id and
\* timestamp, and the route answers 500 without them
chat_route(result) ==
    IF {"response", "user_id", "timestamp"} \subseteq result.keys
    THEN 200 ELSE 500

conflict_question(existing, value) ==
    ConflictHead \o existing.v \o ConflictMid \o value.v \o ConflictTail

\* ---------------------------------------------------------------- state
\* ------------------------------------------------------- gemini_client.py
NoClearMessage ==
    <<"I", " ", "d", "i", "d", "n", "'", "t", " ", "r", "e", "c", "e", "i",
      "v", "e", " ", "a", " ", "c", "l", "e", "a", "r", " ", "m", "e", "s",
      "s", "a", "g", "e", ".", " ", "C", "o", "u", "l", "d", " ", "y", "o",
      "u", " ", "t", "r", "y", " ", "a", "g", "a", "i", "n", "?">>
Fallback ==
    <<"I", "'", "m", " ", "h", "a", "v", "i", "n", "g", " ", "a", " ", "b",
      "i", "t", " ", "o", "f", " ", "t", "r", "o", "u", "b", "l", "e", " ",
      "r", "e", "s", "p", "o", "n", "d", "i", "n", "g", " ", "r", "i", "g",
      "h", "t", " ", "n", "o", "w", ".", " ", "C", "o", "u", "l", "d", " ",
      "y", "o", "u", " ", "t", "r", "y", " ", "a", "g", "a", "i", "n", "?">>

\* what one call of self.model.generate_content(prompt) and the reading of
\* response.text can do: "text" is a response with that text, "quota" an
\* exception whose message names quota or rate, "error" any other exception,
\* "blocked" a response whose .text accessor raises (no valid part)
Outcome(kind, text) == [kind |-> kind, text |-> text]

\* GeminiClient.__init__ and the locals of generate while it runs
new_client ==
    [call_count |-> 0, total_tokens_estimate |-> 0, pc |-> "idle",
     prompt |-> <<>>, retry_count |-> 0, attempt |-> 0, outcomes |-> <<>>,
     slept |-> 0, ret |-> <<>>, count0 |-> 0, ngen |-> 0]

RECURSIVE pow2(_)
pow2(n) == IF n = 0 THEN 1 ELSE 2 * pow2(n - 1)

\* generate up to the for loop: a blank prompt is answered at once
generate_begin(c, prompt, retry_count) ==
    LET c1 == [c EXCEPT !.prompt = prompt, !.retry_count = retry_count,
                        !.attempt = 0, !.outcomes = <<>>, !.slept = 0,
                        !.count0 = c.call_count, !.ngen = @ + 1]
    IN IF prompt = <<>> \/ strip(prompt) = <<>>
       THEN [c1 EXCEPT !.pc = "returned", !.ret = NoClearMessage]
       ELSE [c1 EXCEPT !.pc = "trying"]

\* "if attempt < retry_count"
may_retry(attempt, retry_count) == attempt < retry_count

\* one pass of "for attempt in range(retry_count + 1)"
generate_attempt(c, outcome) ==
    LET tried == [c EXCEPT !.outcomes = Append(@, outcome)] IN
    IF outcome.kind = "text"
    THEN [tried EXCEPT
            !.call_count = @ + 1,
            !.total_tokens_estimate =
                @ + ((Len(c.prompt) + Len(outcome.text)) \div 4),
            !.ret = strip(outcome.text),
            !.pc = "returned"]
    ELSE LET counted == IF outcome.kind = "blocked"
                        THEN [tried EXCEPT !.call_count = @ + 1]
                        ELSE tried
         IN IF may_retry(c.attempt, c.retry_count)
            THEN [counted EXCEPT
                    !.slept = @ + (IF outcome.kind = "quota"
                                   THEN pow2(c.attempt) ELSE 1),
                    !.attempt = @ + 1]
            ELSE [counted EXCEPT !.ret = Fallback, !.pc = "returned"]

VARIABLES
    stm,        \* one ShortTermMemory object
    clock,      \* datetime.now(): a fresh stamp per reading
    added,      \* history: the messages accepted by add, in call order
    stmCall,    \* the last call made on stm and its arguments
    stmOut,     \* how that call ended
    vm,         \* one VectorMemory object: index, data and the two files
    lock,       \* VectorMemory._lock: "free" or the thread holding it
    thr,        \* per thread: where it is in its VectorMemory call
    vops,       \* number of mutating VectorMemory calls made
    vcall,      \* the last VectorMemory call that returned, and its result
    db,         \* table user_profile: user_id -> row
    pcall,      \* the last call made on the profile store, and how it ended
    sessions,   \* NovaChatbot.sessions: user_id -> ShortTermMemory
    chat,       \* the chat coroutine on the event loop: position and locals
    rt,         \* per worker thread: the update_profile request it serves
    gen_calls,  \* number of calls of GeminiClient.generate
    nchats,     \* number of chat requests received
    nroutes,    \* number of update_profile requests received
    llm,        \* one GeminiClient: its counters and the generate call in it
    vector_memory  \* app.vector_memory, the VectorMemory the routes read

stmVars == <<stm, added, stmCall, stmOut>>
vecVars == <<vm, lock, thr, vops, vcall>>
dbVars == <<db, pcall>>
appVars ==
    <<sessions, chat, rt, gen_calls, nchats, nroutes, llm, vector_memory>>
vars == <<stm, clock, added, stmCall, stmOut, vm, lock, thr, vops, vcall,
          db, pcall, sessions, chat, rt, gen_calls, nchats, nroutes, llm,
          vector_memory>>

Users == {"u1", "u2"}
Threads == {"t1", "t2"}

Idle == [pc |-> "idle", op |-> "", user_id |-> "", texts |-> <<>>]
\* ret holds a returned count, ok a returned bool, memories a returned list
NoCall == [op |-> "", user_id |-> "", ret |-> 0, ok |-> FALSE,
           memories |-> <<>>, query |-> <<>>, k |-> 0,
           min_similarity |-> NoneInt, texts |-> <<>>, metadata_list |-> None]

NoStmCall == [op |-> "new", role |-> "", content |-> <<>>,
              keep_system |-> FALSE, importer |-> new_memory(0, NoneInt),
              include_system |-> FALSE, mutation |-> ""]

InitStmIdle ==
    /\ stm = new_memory(0, NoneInt)
    /\ added = <<>>
    /\ stmCall = NoStmCall
    /\ stmOut = "ok"

NoProfileCall == [op |-> "", user_id |-> "", field |-> "", value |-> PyNone,
                  updates |-> <<>>, out |-> ""]

InitDbIdle ==
    /\ db = [u \in Users |-> NoRow]
    /\ pcall = NoProfileCall

Workers == {"w1", "w2"}

NoTurn == [pc |-> "idle", user_id |-> "", message |-> <<>>, context |-> <<>>,
           response_text |-> <<>>, updates |-> <<>>,
           existing_profile |-> get_user_profile([u \in Users |-> NoRow], "u1"),
           i |-> 1, result |-> Reply(<<>>), row0 |-> NoRow, wrote |-> {},
           failed |-> FALSE, conflict |-> "", status |-> 0]
NoRequest == [pc |-> "idle", user_id |-> "", field |-> "", value |-> PyNone,
              status |-> 0]

InitAppIdle ==
    /\ sessions = [u \in Users |-> NoSession]
    /\ chat = NoTurn
    /\ rt = [w \in Workers |-> NoRequest]
    /\ llm = new_client
    /\ gen_calls = 0
    /\ nchats = 0
    /\ nroutes = 0
    /\ vector_memory = new_vector_memory

InitVecIdle ==
    /\ vm = new_vector_memory
    /\ lock = "free"
    /\ thr = [t \in Threads |-> Idle]
    /\ vops = 0
    /\ vcall = NoCall

\* ------------------------------------------- ShortTermMemory on its own
\* inputs of the buffer operations
StmRoles == Roles \cup {"tool"}
StmContents ==
    { <<"a">>, <<" ", "b", "b", "b", "b", "b", "b", "b">>, <<" ">>, <<>> }
StmTokenCfg == {NoneInt, Some(1)}
StmSystemContents == { <<"s">> }
CallerMutations == {"append", "pop", "set_role", "set_content"}
\* the buffers an export is imported into: a new one, and one that holds a
\* system and a user message under another configuration
StmImporters ==
    { new_memory(1, Some(1)),
      add(add(new_memory(2, NoneInt), "system", <<"a">>, 0).mem,
          "user", <<"a">>, 1).mem }

InitSTM ==
    /\ \E mt \in 0..MaxTurnsCfg, tk \in StmTokenCfg : stm = new_memory(mt, tk)
    /\ clock = 0
    /\ added = <<>>
    /\ stmCall = NoStmCall
    /\ stmOut = "ok"
    /\ InitVecIdle
    /\ InitDbIdle
    /\ InitAppIdle

Add(role, content) ==
    /\ stmOut # "hang"
    /\ clock < MaxAdds
    /\ LET r == add(stm, role, content, clock) IN
       /\ stm' = r.mem
       /\ stmOut' = r.out
       /\ clock' = IF r.out = "ValueError" THEN clock ELSE clock + 1
       /\ added' = IF r.out = "ValueError" THEN added
                   ELSE Append(added, [role |-> role, content |-> strip(content)])
    /\ stmCall' = [NoStmCall EXCEPT !.op = "add", !.role = role,
                                    !.content = content]
    /\ UNCHANGED <<vecVars, dbVars, appVars>>

\* added restarts from what the buffer holds after an operation other than add
SetSystemMessage(content) ==
    /\ stmOut # "hang"
    /\ clock < MaxAdds
    /\ stm' = set_system_message(stm, content, clock)
    /\ clock' = clock + 1
    /\ added' = stm'.messages
    /\ stmOut' = "ok"
    /\ stmCall' = [NoStmCall EXCEPT !.op = "set_system_message",
                                    !.role = "system", !.content = content]
    /\ UNCHANGED <<vecVars, dbVars, appVars>>

Clear(keep_system) ==
    /\ stmOut # "hang"
    /\ stm' = clear(stm, keep_system)
    /\ added' = stm'.messages
    /\ stmOut' = "ok"
    /\ stmCall' = [NoStmCall EXCEPT !.op = "clear", !.keep_system = keep_system]
    /\ UNCHANGED <<clock, vecVars, dbVars, appVars>>

\* stm.export_to_json(f) followed by importer.import_from_json(f); stm is
\* the importing buffer from then on
ExportImport(importer) ==
    /\ stmOut # "hang"
    /\ stm' = import_from_json(importer, export_to_json(stm))
    /\ added' = stm'.messages
    /\ stmOut' = "ok"
    /\ stmCall' = [NoStmCall EXCEPT !.op = "import_from_json",
                                    !.importer = importer]
    /\ UNCHANGED <<clock, vecVars, dbVars, appVars>>

\* r = stm.get(include_system), then the caller changes r
GetThenMutate(include_system, mutation) ==
    /\ stmOut # "hang"
    /\ stm' = caller_mutates(stm, get_shared(stm, include_system), mutation,
                             IF mutation = "set_role" THEN "system"
                             ELSE <<"x">>)
    /\ added' = IF stm' = stm THEN added ELSE stm'.messages
    /\ stmOut' = "ok"
    /\ stmCall' = [NoStmCall EXCEPT !.op = "get",
                                    !.include_system = include_system,
                                    !.mutation = mutation]
    /\ UNCHANGED <<clock, vecVars, dbVars, appVars>>

NextSTM ==
    \/ \E role \in StmRoles, content \in StmContents : Add(role, content)
    \/ \E content \in StmSystemContents : SetSystemMessage(content)
    \/ \E keep_system \in BOOLEAN : Clear(keep_system)
    \/ \E importer \in StmImporters : ExportImport(importer)

SpecSTM == InitSTM /\ [][NextSTM]_vars

\* the buffer with a caller that changes the lists get hands out
NextGet ==
    \/ \E role \in Roles : Add(role, <<"a">>)
    \/ \E include_system \in BOOLEAN, mutation \in CallerMutations :
          GetThenMutate(include_system, mutation)

SpecGet == InitSTM /\ [][NextGet]_vars

\* -------------------------------- VectorMemory, one call after another
VecTexts == { <<"a">>, <<" ", "b", " ">>, <<" ">> }
VecBatches == { [texts |-> <<<<" ">>, <<"c">>>>, ml |-> Some(<<"m1", "m2">>)],
                [texts |-> <<<<"a">>, <<"b">>>>, ml |-> None] }
VecQueries == { <<"a">>, <<"b">>, <<" ">> }
VecKs == 0..2
\* the retrievals made: (query, k, min_similarity)
RetrieveCalls ==
    { <<<<"a">>, 1, NoneInt>>, <<<<"a">>, 2, Some(0)>>, <<<<"b">>, 2, NoneInt>>,
      <<<<" ">>, 2, NoneInt>>, <<<<"b">>, 0, NoneInt>> }

\* the files an earlier process left: none, or those written by
\* store_batch("u1", ["a"] * 10) on a new store
TenFiles ==
    LET r == store_batch(new_vector_memory, "u1", [i \in 1..10 |-> <<"a">>],
                         None, 0)
    IN r.vm.disk
\* or those written by store_memory("u1", "a"), store_memory("u2", "b")
TwoFiles ==
    LET r1 == store_memory(new_vector_memory, "u1", <<"a">>, None, TRUE, 0)
        r2 == store_memory(r1.vm, "u2", <<"b">>, None, TRUE, 1)
    IN r2.vm.disk

InitVecSeq ==
    /\ \E files \in {NoFiles, TenFiles} :
          /\ vm = load_or_create(files)
          /\ clock = Len(files.data)
    /\ lock = "free"
    /\ thr = [t \in Threads |-> Idle]
    /\ vops = 0
    /\ vcall = NoCall
    /\ InitStmIdle
    /\ InitDbIdle
    /\ InitAppIdle

StoreMemory(u, text) ==
    /\ vops < MaxVecOps
    /\ LET r == store_memory(vm, u, text, None, TRUE, clock) IN
       /\ vm' = r.vm
       /\ clock' = IF r.ret THEN clock + 1 ELSE clock
       /\ vcall' = [NoCall EXCEPT !.op = "store_memory", !.user_id = u, !.ok = r.ret]
    /\ vops' = vops + 1
    /\ UNCHANGED <<lock, thr, stmVars, dbVars, appVars>>

StoreBatch(u, texts, ml) ==
    /\ vops < MaxVecOps
    /\ LET r == store_batch(vm, u, texts, ml, clock) IN
       /\ vm' = r.vm
       /\ clock' = clock + r.ret
       /\ vcall' = [NoCall EXCEPT !.op = "store_batch", !.user_id = u,
                                  !.ret = r.ret, !.texts = texts,
                                  !.metadata_list = ml]
    /\ vops' = vops + 1
    /\ UNCHANGED <<lock, thr, stmVars, dbVars, appVars>>

DeleteUser(u) ==
    /\ vops < MaxVecOps
    /\ LET r == delete_user_memories(vm, u) IN
       /\ vm' = r.vm
       /\ vcall' = [NoCall EXCEPT !.op = "delete_user_memories", !.user_id = u, !.ret = r.ret]
    /\ vops' = vops + 1
    /\ UNCHANGED <<clock, lock, thr, stmVars, dbVars, appVars>>

ClearAll ==
    /\ vops < MaxVecOps
    /\ vm' = clear_all(vm)
    /\ vcall' = [NoCall EXCEPT !.op = "clear_all", !.user_id = "", !.ret = 0]
    /\ vops' = vops + 1
    /\ UNCHANGED <<clock, lock, thr, stmVars, dbVars, appVars>>

Retrieve(u, q, k, ms) ==
    /\ vcall' = [NoCall EXCEPT
                   !.op = "retrieve_memories", !.user_id = u,
                   !.memories = retrieve_memories(vm, u, q, k, ms),
                   !.query = q, !.k = k, !.min_similarity = ms]
    /\ UNCHANGED <<vm, vops, clock, lock, thr, stmVars, dbVars, appVars>>

NextVecSeq ==
    \/ \E u \in Users, text \in VecTexts : StoreMemory(u, text)
    \/ \E u \in Users, b \in VecBatches : StoreBatch(u, b.texts, b.ml)
    \/ \E u \in Users : DeleteUser(u)
    \/ ClearAll
    \/ \E u \in Users, c \in RetrieveCalls : Retrieve(u, c[1], c[2], c[3])

SpecVecSeq == InitVecSeq /\ [][NextVecSeq]_vars

\* ------------------------- VectorMemory across process stops and restarts
\* A process stores memories; it can stop inside _save between the two
\* writes; a file can get lost or damaged; a new process then constructs a
\* VectorMemory from what is on disk.
LoadTexts == { <<"a">>, <<"b">> }
Damages == {"missing", "unreadable"}

InitLoad ==
    /\ vm = new_vector_memory
    /\ clock = 0
    /\ lock = "free"
    /\ thr = [t \in Threads |-> Idle]
    /\ vops = 0
    /\ vcall = NoCall
    /\ InitStmIdle
    /\ InitDbIdle
    /\ InitAppIdle

\* store_memory in a running process
LoadStore(u, text) ==
    /\ vcall.op # "stopped"
    /\ vops < MaxVecOps
    /\ LET r == store_memory(vm, u, text, None, TRUE, clock) IN
       /\ vm' = r.vm
       /\ vcall' = [NoCall EXCEPT !.op = "store_memory", !.user_id = u,
                                  !.ok = r.ret]
    /\ clock' = clock + 1
    /\ vops' = vops + 1
    /\ UNCHANGED <<lock, thr, stmVars, dbVars, appVars>>

\* store_memory whose process stops in _save after faiss.write_index and
\* before pickle.dump
StoreStopped(u, text) ==
    /\ vcall.op # "stopped"
    /\ vops < MaxVecOps
    /\ LET r == store_memory(vm, u, text, None, FALSE, clock) IN
       /\ vm' = write_index(r.vm)
       /\ vcall' = [NoCall EXCEPT !.op = "stopped", !.user_id = u]
    /\ clock' = clock + 1
    /\ vops' = vops + 1
    /\ UNCHANGED <<lock, thr, stmVars, dbVars, appVars>>

\* an artifact is removed or damaged while no process runs
Damage(artifact, how) ==
    /\ vcall.op \in {"stopped", "store_memory"}
    /\ vm' = IF artifact = "index"
             THEN [vm EXCEPT !.disk.index_file = how]
             ELSE [vm EXCEPT !.disk.data_file = how]
    /\ vcall' = [NoCall EXCEPT !.op = "stopped"]
    /\ UNCHANGED <<clock, vops, lock, thr, stmVars, dbVars, appVars>>

\* VectorMemory(...) in a new process
Construct ==
    /\ vcall.op # "__init__"
    /\ vm' = load_or_create(vm.disk)
    /\ vcall' = [NoCall EXCEPT !.op = "__init__"]
    /\ UNCHANGED <<clock, vops, lock, thr, stmVars, dbVars, appVars>>

NextLoad ==
    \/ \E u \in Users, text \in LoadTexts : LoadStore(u, text)
    \/ \E u \in Users, text \in LoadTexts : StoreStopped(u, text)
    \/ \E artifact \in {"index", "data"}, how \in Damages :
          Damage(artifact, how)
    \/ Construct

SpecLoad == InitLoad /\ [][NextLoad]_vars

\* ----------------------------- VectorMemory called from several threads
\* A call that reaches "with self._lock" waits there (pc "wait"), then runs
\* its critical section in two steps so that the state between the write of
\* the index and the write of the item list is a state of the model:
\* Enter takes the lock and writes the index, Leave writes the item list,
\* saves and releases. ok = FALSE is the embedding model raising.
InitVec ==
    /\ \E files \in {NoFiles, TwoFiles} :
          /\ vm = load_or_create(files)
          /\ clock = Len(files.data)
    /\ lock = "free"
    /\ thr = [t \in Threads |-> Idle]
    /\ vops = 0
    /\ vcall = NoCall
    /\ InitStmIdle
    /\ InitDbIdle
    /\ InitAppIdle

Waiting(op, u, texts) == [pc |-> "wait", op |-> op, user_id |-> u, texts |-> texts]

BeginStoreMemory(t, u, text) ==
    /\ thr[t].pc = "idle"
    /\ vops < MaxVecOps
    /\ IF store_refuses(text)
       THEN /\ vcall' = [NoCall EXCEPT !.op = "store_memory", !.user_id = u, !.ok = FALSE]
            /\ thr' = thr
       ELSE /\ thr' = [thr EXCEPT ![t] = Waiting("store_memory", u, <<strip(text)>>)]
            /\ vcall' = vcall
    /\ vops' = vops + 1
    /\ UNCHANGED <<vm, lock, clock, stmVars, dbVars, appVars>>

BeginStoreBatch(t, u, texts) ==
    /\ thr[t].pc = "idle"
    /\ vops < MaxVecOps
    /\ IF texts = <<>> \/ non_blank(texts) = <<>>
       THEN /\ vcall' = [NoCall EXCEPT !.op = "store_batch", !.user_id = u, !.ret = 0]
            /\ thr' = thr
       ELSE /\ thr' = [thr EXCEPT ![t] = Waiting("store_batch", u, non_blank(texts))]
            /\ vcall' = vcall
    /\ vops' = vops + 1
    /\ UNCHANGED <<vm, lock, clock, stmVars, dbVars, appVars>>

BeginDelete(t, u) ==
    /\ thr[t].pc = "idle"
    /\ vops < MaxVecOps
    /\ thr' = [thr EXCEPT ![t] = Waiting("delete_user_memories", u, <<>>)]
    /\ vops' = vops + 1
    /\ UNCHANGED <<vm, lock, clock, vcall, stmVars, dbVars, appVars>>

BeginClear(t) ==
    /\ thr[t].pc = "idle"
    /\ vops < MaxVecOps
    /\ thr' = [thr EXCEPT ![t] = Waiting("clear_all", "", <<>>)]
    /\ vops' = vops + 1
    /\ UNCHANGED <<vm, lock, clock, vcall, stmVars, dbVars, appVars>>

\* the call of thread t ends here with result ret, the lock not held
Return(t, ret) ==
    /\ thr' = [thr EXCEPT ![t] = Idle]
    /\ vcall' = IF thr[t].op = "store_memory"
                THEN [NoCall EXCEPT !.op = thr[t].op,
                                    !.user_id = thr[t].user_id, !.ok = ret]
                ELSE [NoCall EXCEPT !.op = thr[t].op,
                                    !.user_id = thr[t].user_id, !.ret = ret]
    /\ lock' = "free"

Hold(t) ==
    /\ thr' = [thr EXCEPT ![t].pc = "locked"]
    /\ lock' = t
    /\ vcall' = vcall

EnterStore(t, ok) ==
    /\ thr[t].pc = "wait" /\ lock = "free"
    /\ thr[t].op \in {"store_memory", "store_batch"}
    /\ IF ok
       THEN vm' = index_add(vm, encode_all(thr[t].texts)) /\ Hold(t)
       ELSE vm' = vm /\ Return(t, IF thr[t].op = "store_memory" THEN FALSE ELSE 0)
    /\ UNCHANGED <<clock, vops, stmVars, dbVars, appVars>>

EnterDelete(t, ok) ==
    /\ thr[t].pc = "wait" /\ lock = "free"
    /\ thr[t].op = "delete_user_memories"
    /\ LET keep == indices_to_keep(vm.data, thr[t].user_id, 1) IN
       IF Len(vm.data) - Len(keep) = 0 THEN vm' = vm /\ Return(t, 0)
       ELSE IF ok
       THEN vm' = [vm EXCEPT !.index = rebuild_index(vm.data, keep)] /\ Hold(t)
       ELSE vm' = vm /\ Return(t, -1)
    /\ UNCHANGED <<clock, vops, stmVars, dbVars, appVars>>

EnterClear(t) ==
    /\ thr[t].pc = "wait" /\ lock = "free"
    /\ thr[t].op = "clear_all"
    /\ vm' = [vm EXCEPT !.index = <<>>]
    /\ Hold(t)
    /\ UNCHANGED <<clock, vops, stmVars, dbVars, appVars>>

LeaveStore(t) ==
    /\ thr[t].pc = "locked" /\ lock = t
    /\ thr[t].op \in {"store_memory", "store_batch"}
    /\ vm' = save(data_append(vm, batch_items(thr[t].user_id, thr[t].texts,
                                              None, clock)))
    /\ clock' = clock + Len(thr[t].texts)
    /\ Return(t, IF thr[t].op = "store_memory" THEN TRUE ELSE Len(thr[t].texts))
    /\ UNCHANGED <<vops, stmVars, dbVars, appVars>>

LeaveDelete(t) ==
    /\ thr[t].pc = "locked" /\ lock = t
    /\ thr[t].op = "delete_user_memories"
    /\ LET keep == indices_to_keep(vm.data, thr[t].user_id, 1) IN
       /\ vm' = save([vm EXCEPT !.data = rebuild_data(vm.data, keep)])
       /\ Return(t, Len(vm.data) - Len(keep))
    /\ UNCHANGED <<clock, vops, stmVars, dbVars, appVars>>

LeaveClear(t) ==
    /\ thr[t].pc = "locked" /\ lock = t
    /\ thr[t].op = "clear_all"
    /\ vm' = save([vm EXCEPT !.data = <<>>])
    /\ Return(t, 0)
    /\ UNCHANGED <<clock, vops, stmVars, dbVars, appVars>>

NextVec ==
    \E t \in Threads :
       \/ \E u \in Users, text \in VecTexts : BeginStoreMemory(t, u, text)
       \/ \E u \in Users, b \in VecBatches : BeginStoreBatch(t, u, b.texts)
       \/ \E u \in Users : BeginDelete(t, u)
       \/ BeginClear(t)
       \/ \E ok \in BOOLEAN : EnterStore(t, ok)
       \/ \E ok \in BOOLEAN : EnterDelete(t, ok)
       \/ EnterClear(t)
       \/ LeaveStore(t)
       \/ LeaveDelete(t)
       \/ LeaveClear(t)

SpecVec == InitVec /\ [][NextVec]_vars

\* ------------------------------------------- the profile store on its own
Alex == <<"A", "l", "e", "x">>
Sam == <<"S", "a", "m">>
ProfileFields == {"name", "location", "preferences", "tone", "age"}
ProfileValues == { PyStr(Alex), PyList(<<<<"t", "e", "a">>>>) }
Item(field, value) == [field |-> field, value |-> value]
ProfileUpdates ==
    { <<>>,
      <<Item("name", PyStr(Sam)), Item("tone", PyStr(Alex))>>,
      <<Item("name", PyStr(Sam)), Item("preferences", PyStr(Alex))>>,
      <<Item("preferences", PyList(<<<<"t", "e", "a">>>>)),
        Item("location", PyList(<<<<"t", "e", "a">>>>))>>,
      <<Item("tone", PyStr(Sam)), Item("age", PyStr(Alex))>> }

InitProfile ==
    /\ InitDbIdle
    /\ InitAppIdle
    /\ InitVecIdle
    /\ InitStmIdle
    /\ clock = 0

Upsert(u, field, value, storage_ok) ==
    /\ LET r == upsert_user_profile(db, u, field, value, storage_ok) IN
       /\ db' = r.db
       /\ pcall' = [NoProfileCall EXCEPT
                      !.op = "upsert_user_profile", !.user_id = u,
                      !.field = field, !.value = value, !.out = r.out]
    /\ UNCHANGED <<clock, stmVars, vecVars, appVars>>

UpdateMany(u, updates, storage_ok) ==
    /\ LET r == update_user_profile(db, u, updates, storage_ok) IN
       /\ db' = r.db
       /\ pcall' = [NoProfileCall EXCEPT
                      !.op = "update_user_profile", !.user_id = u,
                      !.updates = updates, !.out = r.out]
    /\ UNCHANGED <<clock, stmVars, vecVars, appVars>>

NextProfile ==
    \/ \E u \in Users, field \in ProfileFields, value \in ProfileValues,
          storage_ok \in BOOLEAN : Upsert(u, field, value, storage_ok)
    \/ \E u \in Users, updates \in ProfileUpdates, storage_ok \in BOOLEAN :
          UpdateMany(u, updates, storage_ok)

SpecProfile == InitProfile /\ [][NextProfile]_vars

\* ------------------------------------- the application: chat and routes
\* chat is a coroutine without an await in its body, so the event loop runs
\* one chat at a time; update_profile is a plain def, which the framework
\* runs on worker threads, so its steps interleave with those of chat and of
\* each other. chat is cut at the states of the turn state machine; the
\* profile table is the only state chat shares with the workers.
AppUsers == {"u1"}
MsgAlex == 
    <<"M", "y", " ", "n", "a", "m", "e", " ", "i", "s", " ", "A", "l", "e",
      "x", ".">>
MsgSam == 
    <<"m", "y", " ", "n", "a", "m", "e", " ", "i", "s", " ", "S", "a", "m",
      ".">>
MsgRome == 
    <<"I", " ", "l", "i", "v", "e", " ", "i", "n", " ", "R", "o", "m", "e",
      ".", " ", "o", "k">>
MsgBoth == 
    <<"m", "y", " ", "n", "a", "m", "e", " ", "i", "s", " ", "A", "l", ",",
      " ", "i", " ", "l", "i", "v", "e", " ", "i", "n", " ", "R", "o", "m",
      "e", ".">>
MsgTrail == 
    <<"m", "y", " ", "n", "a", "m", "e", " ", "i", "s">>
MsgHello == 
    <<"h", "e", "l", "l", "o">>
AppMessages == { MsgAlex, MsgSam, MsgRome, MsgBoth, MsgTrail, MsgHello,
                 <<" ", " ">>, <<>> }
GenTexts == { <<"o", "k">>, <<>> }
RouteFields == {"name", "location", "age"}
RouteValues == { PyStr(Alex), PyStr(Sam) }

othersApp ==
    <<stm, added, stmCall, stmOut, lock, thr, vops, vcall, pcall, llm,
      vector_memory>>

InitApp ==
    /\ InitAppIdle
    /\ InitDbIdle
    /\ InitVecIdle
    /\ InitStmIdle
    /\ clock = 0

NotInFlight == {"idle", "Completed", "Raised"}

\* Received: the blank check, then the user turn appended
ChatReceive(u, m) ==
    /\ chat.pc \in NotInFlight
    /\ nchats < MaxChats
    /\ nchats' = nchats + 1
    /\ LET turn == [NoTurn EXCEPT !.user_id = u, !.message = m,
                                  !.row0 = db[u]] IN
       IF blank_message(m)
       THEN /\ chat' = [turn EXCEPT !.pc = "Completed",
                                    !.result = Reply(SayAgain),
                                    !.status = chat_route(Reply(SayAgain))]
            /\ UNCHANGED <<sessions, clock>>
       ELSE LET s1 == get_session(sessions, u)
                r == add(s1[u].mem, "user", m, clock)
            IN /\ sessions' = [s1 EXCEPT ![u].mem = r.mem]
               /\ clock' = IF r.out = "ok" THEN clock + 1 ELSE clock
               /\ chat' = [turn EXCEPT !.pc = IF r.out = "ok"
                                              THEN "BufferedUserTurn"
                                              ELSE "Raised",
                                        !.status = IF r.out = "ok"
                                                   THEN 0 ELSE 500]
    /\ UNCHANGED <<db, vm, rt, gen_calls, nroutes, othersApp>>

\* ChatAssemble with the summary stored before the context is assembled
ChatAssembleAfterSummary ==
    /\ chat.pc = "BufferedUserTurn"
    /\ LET u == chat.user_id
           summary == SummaryPrefix \o slice_to(chat.message, SummaryLen)
           sm == store_memory(vm, u, summary, None, TRUE, clock)
       IN /\ vm' = sm.vm
          /\ chat' = [chat EXCEPT
                        !.pc = "ContextAssembled",
                        !.context = build_context(
                            get_user_profile(db, u),
                            retrieve_memories(sm.vm, u, chat.message, ContextK,
                                              NoneInt),
                            get(sessions[u].mem, FALSE),
                            chat.message)]
    /\ UNCHANGED <<db, rt, gen_calls, nroutes, nchats, sessions, clock,
                   othersApp>>

ChatAssemble ==
    /\ chat.pc = "BufferedUserTurn"
    /\ LET u == chat.user_id IN
       chat' = [chat EXCEPT
                  !.pc = "ContextAssembled",
                  !.context = build_context(
                      get_user_profile(db, u),
                      retrieve_memories(vm, u, chat.message, ContextK, NoneInt),
                      get(sessions[u].mem, FALSE),
                      chat.message)]
    /\ UNCHANGED <<db, vm, rt, gen_calls, nroutes, nchats, sessions, clock,
                   othersApp>>

\* self.llm.generate(context) is called
ChatInvoke ==
    /\ chat.pc = "ContextAssembled"
    /\ chat' = [chat EXCEPT !.pc = "AwaitingGeneration"]
    /\ gen_calls' = gen_calls + 1
    /\ UNCHANGED <<db, vm, rt, nroutes, nchats, sessions, clock, othersApp>>

\* generate returns text (its result is stripped or a fixed fallback), and
\* the assistant turn is appended
ChatGenerated(text) ==
    /\ chat.pc = "AwaitingGeneration"
    /\ LET u == chat.user_id
           r == add(sessions[u].mem, "assistant", text, clock)
       IN /\ sessions' = [sessions EXCEPT ![u].mem = r.mem]
          /\ clock' = IF r.out = "ok" THEN clock + 1 ELSE clock
          /\ chat' = [chat EXCEPT !.response_text = text,
                                  !.pc = IF r.out = "ok"
                                         THEN "BufferedAssistantTurn"
                                         ELSE "Raised",
                                  !.status = IF r.out = "ok" THEN 0 ELSE 500]
    /\ UNCHANGED <<db, vm, rt, gen_calls, nroutes, nchats, othersApp>>

\* the summary is stored, the updates are extracted, the profile is read
ChatExtract ==
    /\ chat.pc = "BufferedAssistantTurn"
    /\ LET u == chat.user_id
           summary == SummaryPrefix \o slice_to(chat.message, SummaryLen)
           sm == store_memory(vm, u, summary, None, TRUE, clock)
           ex == extract_profile_updates(chat.message)
       IN /\ vm' = sm.vm
          /\ clock' = clock + 1
          /\ chat' = IF ex.raised
                     THEN [chat EXCEPT !.pc = "Raised", !.status = 500]
                     ELSE [chat EXCEPT
                             !.pc = "ExtractingUpdates",
                             !.updates = ex.updates,
                             !.existing_profile = get_user_profile(db, u),
                             !.i = 1]
    /\ UNCHANGED <<db, rt, gen_calls, nroutes, nchats, sessions, othersApp>>

\* one pass of "for field, value in updates.items()"
ChatField(storage_ok) ==
    /\ chat.pc = "ExtractingUpdates"
    /\ chat.i <= Len(chat.updates)
    /\ LET u == chat.user_id
           field == chat.updates[chat.i].field
           value == chat.updates[chat.i].value
           existing == profile_get(chat.existing_profile, field)
       IN IF conflicts(existing, value)
          THEN /\ chat' = [chat EXCEPT
                             !.pc = "Completed",
                             !.conflict = field,
                             !.result = Reply(conflict_question(existing, value)),
                             !.status = chat_route(
                                 Reply(conflict_question(existing, value)))]
               /\ db' = db
          ELSE LET r == upsert_user_profile(db, u, field, value, storage_ok)
               IN /\ db' = r.db
                  /\ chat' = [chat EXCEPT
                                !.i = @ + 1,
                                !.wrote = IF r.out = "True"
                                          THEN @ \cup {field} ELSE @,
                                !.failed = @ \/ r.out # "True"]
    /\ UNCHANGED <<vm, rt, gen_calls, nroutes, nchats, sessions, clock,
                   othersApp>>

ChatReturn ==
    /\ chat.pc = "ExtractingUpdates"
    /\ chat.i > Len(chat.updates)
    /\ LET result == FullReply(chat.response_text, chat.user_id, clock,
                                chat.updates # <<>>)
       IN chat' = [chat EXCEPT !.pc = "Completed", !.result = result,
                               !.status = chat_route(result)]
    /\ clock' = clock + 1
    /\ UNCHANGED <<db, vm, rt, gen_calls, nroutes, nchats, sessions, othersApp>>

\* the route GET /memories/{user_id}: it reads the module-level VectorMemory
\* of app.py, not the one NovaChatbot constructed for itself
get_memories(user_id, limit) ==
    LET memories == get_user_memories(vector_memory, user_id, Some(limit),
                                      TRUE)
    IN [i \in 1..Len(memories) |->
          [text |-> memories[i].text, timestamp |-> memories[i].timestamp]]

\* update_profile up to its conflict check: 409 or on to the upsert. The
\* workers are interchangeable: a request goes to w1 unless w1 is busy.
RouteReceive(w, u, field, value) ==
    /\ rt[w].pc = "idle"
    /\ w = "w1" \/ rt["w1"].pc = "upsert"
    /\ nroutes < MaxRoutes
    /\ nroutes' = nroutes + 1
    /\ LET existing == profile_get(get_user_profile(db, u), field)
           req == [NoRequest EXCEPT !.user_id = u, !.field = field,
                                    !.value = value]
       IN rt' = [rt EXCEPT ![w] =
                    IF conflicts(existing, value)
                    THEN [NoRequest EXCEPT !.status = 409]
                    ELSE [req EXCEPT !.pc = "upsert"]]
    /\ UNCHANGED <<db, vm, chat, gen_calls, nchats, sessions, clock, othersApp>>

\* update_profile from the upsert on: 200 whatever upsert returned, 500 when
\* it raised
RouteUpsert(w, storage_ok) ==
    /\ rt[w].pc = "upsert"
    /\ LET r == upsert_user_profile(db, rt[w].user_id, rt[w].field,
                                    rt[w].value, storage_ok)
       IN /\ db' = r.db
          /\ rt' = [rt EXCEPT ![w] =
                       [NoRequest EXCEPT !.status = IF r.out = "ValueError"
                                                    THEN 500 ELSE 200]]
    /\ UNCHANGED <<vm, chat, gen_calls, nroutes, nchats, sessions, clock,
                   othersApp>>

NextApp ==
    \/ \E u \in AppUsers, m \in AppMessages : ChatReceive(u, m)
    \/ ChatAssemble
    \/ ChatInvoke
    \/ \E text \in GenTexts : ChatGenerated(text)
    \/ ChatExtract
    \/ \E storage_ok \in BOOLEAN : ChatField(storage_ok)
    \/ ChatReturn
    \/ \E w \in Workers, u \in AppUsers, field \in RouteFields,
          value \in RouteValues : RouteReceive(w, u, field, value)
    \/ \E w \in Workers, storage_ok \in BOOLEAN : RouteUpsert(w, storage_ok)

SpecApp == InitApp /\ [][NextApp]_vars

\* ----------------------------------------------------- GeminiClient alone
GenPrompts == { <<"h", "i">>, <<" ">> }
GenOutcomes ==
    { Outcome("text", <<"o", "k", " ">>), Outcome("quota", <<>>),
      Outcome("error", <<>>), Outcome("blocked", <<>>) }

InitGen ==
    /\ InitAppIdle
    /\ InitDbIdle
    /\ InitVecIdle
    /\ InitStmIdle
    /\ clock = 0

othersGen ==
    <<stmVars, vecVars, dbVars, clock, sessions, chat, rt, gen_calls, nchats,
      nroutes, vector_memory>>

GenerateCall(prompt, retry_count) ==
    /\ llm.pc # "trying"
    /\ llm.ngen < MaxGenerates
    /\ llm' = generate_begin(llm, prompt, retry_count)
    /\ UNCHANGED othersGen

GenerateAttempt(outcome) ==
    /\ llm.pc = "trying"
    /\ llm' = generate_attempt(llm, outcome)
    /\ UNCHANGED othersGen

NextGen ==
    \/ \E prompt \in GenPrompts, retry_count \in 0..MaxRetry :
          GenerateCall(prompt, retry_count)
    \/ \E outcome \in GenOutcomes : GenerateAttempt(outcome)

SpecGen == InitGen /\ [][NextGen]_vars

\* --------------------------------------------- _build_context on its own
\* the profile table is written through long_term.py and _build_context is
\* called with the memories and the history drawn from these sets
ContextValues == { PyStr(Alex), PyStr(<<>>), PyList(<<<<"t", "e", "a">>>>) }
ContextMemories ==
    { <<>>, retrieve_memories(load_or_create(TwoFiles), "u1", <<"a">>, 1, NoneInt) }
ContextHistories ==
    { <<>>, <<[role |-> "user", content |-> <<"h", "i">>]>> }

BuildContext(u, memories, history, message) ==
    /\ chat' = [NoTurn EXCEPT
                  !.pc = "ContextAssembled", !.user_id = u,
                  !.message = message,
                  !.context = build_context(get_user_profile(db, u), memories,
                                            history, message)]
    /\ UNCHANGED <<db, vm, rt, gen_calls, nroutes, nchats, sessions, clock,
                   othersApp>>

NextContext ==
    \/ \E field \in {"name", "preferences"}, value \in ContextValues :
          Upsert("u1", field, value, TRUE)
    \/ \E updates \in {<<>>} : UpdateMany("u1", updates, TRUE)
    \/ \E memories \in ContextMemories, history \in ContextHistories :
          BuildContext("u1", memories, history, MsgHello)

SpecContext == InitProfile /\ [][NextContext]_vars

\* ------------------------------------------------- claims: ShortTermMemory
\* what the buffer should hold after the calls recorded in hist: every system
\* message and the last max_turns non-system ones, in call order
RECURSIVE retained(_, _)
retained(hist, max_turns) ==
    IF hist = <<>> THEN <<>>
    ELSE IF Head(hist).role = "system" \/ Len(NonSystem(hist)) <= max_turns
         THEN <<Head(hist)>> \o retained(Tail(hist), max_turns)
         ELSE retained(Tail(hist), max_turns)

BlankText(c) == \A i \in 1..Len(c) : c[i] \in Whitespace

\* C1: with no token budget, once more than max_turns non-system messages
\* were added the buffer holds exactly the most recent max_turns non-system
\* messages plus every system message, in the order they were added.
C1_RetainsRecentInOrder ==
    (stm.max_tokens.null /\ Len(NonSystem(added)) > stm.max_turns)
        => stm.messages = retained(added, stm.max_turns)

\* C9: add with empty or whitespace-only content, or with a role other than
\* user, assistant or system, fails and leaves messages and metadata as they
\* were.
C9_InvalidAddRejected ==
    [][ (stmCall'.op = "add"
         /\ (BlankText(stmCall'.content)
             \/ stmCall'.role \notin {"user", "assistant", "system"}))
        => (stmOut' = "ValueError"
            /\ stm'.messages = stm.messages
            /\ stm'.metadata = stm.metadata) ]_vars

C9_Witness ==
    /\ stmCall.op = "add"
    /\ stmCall.role = "tool"
    /\ stmCall.content = <<"a">>
    /\ stmOut = "ValueError"
    /\ Len(stm.messages) >= 2

\* --------------------------------------------------- claims: VectorMemory
Aligned(m) ==
    /\ Len(m.index) = Len(m.data)
    /\ \A i \in 1..Len(m.data) : m.index[i] = encode(m.data[i].text)

\* C6: under every interleaving of store_memory, store_batch,
\* delete_user_memories and clear_all, whenever no thread holds the lock the
\* index and the item list have the same length and the vector at position i
\* is the embedding of the text of the item at position i.
C6_AlignedWhenUnlocked == lock = "free" => Aligned(vm)

C6_Witness ==
    /\ lock = "free"
    /\ vcall.op = "delete_user_memories"
    /\ vcall.ret = 1
    /\ Len(vm.data) = 1
    /\ \E t \in Threads : thr[t].pc = "wait" /\ thr[t].op = "store_batch"

\* C7: retrieve_memories(u, query, k) returns only items whose user_id is u.
C7_OnlyOwnMemories ==
    vcall.op = "retrieve_memories"
        => \A i \in 1..Len(vcall.memories) : vcall.memories[i].user_id = vcall.user_id

C7_Witness ==
    /\ vcall.op = "retrieve_memories"
    /\ vcall.user_id = "u1"
    /\ Len(vcall.memories) = 1
    /\ \E i \in 1..Len(vm.data) :
          vm.data[i].user_id = "u2" /\ vm.data[i].text = vcall.memories[1].text

OfUser(data, u) == SelectSeq(data, LAMBDA m : m.user_id = u)
NotOfUser(data, u) == SelectSeq(data, LAMBDA m : m.user_id # u)
IsPrefix(a, b) == Len(a) <= Len(b) /\ SubSeq(b, 1, Len(a)) = a

\* what delete_user_memories(u) removes and reports, and what u retrieves
\* afterwards
DeleteRemovesUser(u) ==
    /\ vm'.data = NotOfUser(vm.data, u)
    /\ vcall'.ret = Len(OfUser(vm.data, u))
    /\ \A q \in VecQueries, k \in VecKs :
          retrieve_memories(vm', u, q, k, NoneInt) = <<>>

\* C8 as stated: delete_user_memories(u) removes exactly u's items and
\* returns their count; afterwards u retrieves nothing and every other user
\* retrieves the same items in the same order as before the delete.
C8_OthersUnaffected ==
    [][ vcall'.op = "delete_user_memories"
        => /\ DeleteRemovesUser(vcall'.user_id)
           /\ \A v \in Users \ {vcall'.user_id}, q \in VecQueries, k \in VecKs :
                 retrieve_memories(vm', v, q, k, NoneInt)
                    = retrieve_memories(vm, v, q, k, NoneInt) ]_vars

\* C8 amended: ... every other user retrieves the items it retrieved before,
\* in the same order, possibly followed by further items of its own that the
\* 10 * k over-fetch had left out; the result is the same whenever the store
\* held at most 10 * k items before the delete.
C8_OthersKeepPrefix ==
    [][ vcall'.op = "delete_user_memories"
        => /\ DeleteRemovesUser(vcall'.user_id)
           /\ \A v \in Users \ {vcall'.user_id}, q \in VecQueries, k \in VecKs :
                 LET before == retrieve_memories(vm, v, q, k, NoneInt)
                     after == retrieve_memories(vm', v, q, k, NoneInt)
                 IN /\ IsPrefix(before, after)
                    /\ Len(vm.data) <= k * OverFetch => after = before ]_vars

C8_Witness ==
    /\ vcall.op = "delete_user_memories"
    /\ vcall.user_id = "u1"
    /\ vcall.ret = 10
    /\ retrieve_memories(vm, "u2", <<"a">>, 1, NoneInt) # <<>>
    /\ retrieve_memories(vm, "u1", <<"a">>, 1, NoneInt) = <<>>

\* --------------------------------------------------- claims: profile store
\* C10: upsert_user_profile with a field outside {name, location,
\* preferences, tone} reports the invalid-field failure and leaves storage
\* unchanged: no row is created and no row is modified.
C10_InvalidFieldRejected ==
    [][ (pcall'.op = "upsert_user_profile"
         /\ pcall'.field \notin {"name", "location", "preferences", "tone"})
        => (pcall'.out = "ValueError" /\ db' = db) ]_vars

C10_Witness ==
    /\ pcall.op = "upsert_user_profile"
    /\ pcall.field = "age"
    /\ pcall.out = "ValueError"
    /\ db["u1"].present
    /\ ~db["u2"].present
    /\ pcall.user_id = "u2"

\* ------------------------------------------------------------ claims: chat
\* the text of message after the last occurrence of phrase, whatever the
\* letter case of the occurrence
after_phrase(message, phrase) ==
    LET rest == split_last(lower(message), phrase)
    IN slice_from(message, Len(message) - Len(rest))

\* the name the phrase "my name is" introduces: the first
\* whitespace-delimited token after it without its trailing punctuation
stated_name(message) ==
    rstrip_chars(split_ws(strip(after_phrase(message, MyNameIs)))[1], NamePunct)

\* the location the phrase "i live in" introduces: the text after it up to
\* the first period
stated_location(message) ==
    split_first(strip(after_phrase(message, ILiveIn)), <<".">>)

\* a turn that ran alone on a user whose profile row held no name and no
\* location, and whose every write was accepted by the storage
QuietTurn ==
    /\ chat.pc = "Completed"
    /\ nroutes = 0
    /\ ~chat.failed
    /\ ~truthy(profile_get(get_user_profile([db EXCEPT ![chat.user_id] = chat.row0],
                                            chat.user_id), "name"))
    /\ ~truthy(profile_get(get_user_profile([db EXCEPT ![chat.user_id] = chat.row0],
                                            chat.user_id), "location"))

\* C2: for a user with no stored name, chat(u, "My name is Alex.") returns
\* profile_updated = true and get_user_profile(u) then has name = "Alex";
\* for any message containing "my name is" in any letter case the stored
\* name is the first token after the phrase without trailing punctuation,
\* and for "i live in" in any letter case the stored location is the text
\* after the phrase up to the first period.
C2_NameAndLocationExtracted ==
    QuietTurn =>
      LET profile == get_user_profile(db, chat.user_id) IN
      /\ chat.message = MsgAlex
            => /\ "profile_updated" \in chat.result.keys
               /\ chat.result.profile_updated
               /\ profile_get(profile, "name") = PyStr(Alex)
      /\ contains(lower(chat.message), MyNameIs)
            => profile_get(profile, "name") = PyStr(stated_name(chat.message))
      /\ contains(lower(chat.message), ILiveIn)
            => profile_get(profile, "location")
                  = PyStr(stated_location(chat.message))

\* C3: whenever a chat turn extracts a value for name or location whose
\* stored value is non-null and differs, the returned response is the
\* clarifying question and not the generated reply, profile_updated is
\* false, and the turn leaves the stored value of that field as it was.
C3_ConflictAsksAndKeeps ==
    [][ (chat.pc = "ExtractingUpdates" /\ chat'.pc = "Completed"
         /\ chat'.conflict # "")
        => LET existing == profile_get(chat.existing_profile, chat'.conflict)
               value == chat.updates[chat.i].value
           IN /\ truthy(existing) /\ ~PyEq(existing, value)
              /\ chat'.result.response = conflict_question(existing, value)
              /\ chat'.result.response # chat.response_text
              /\ "profile_updated" \in chat'.result.keys
              /\ chat'.result.profile_updated = FALSE
              /\ db' = db
              /\ chat'.conflict \notin chat'.wrote ]_vars

\* C4: a chat call whose message is empty or whitespace-only returns the
\* fixed clarifying reply and changes nothing: no session is created, no
\* short-term message appended, no semantic memory stored, no profile row
\* created or updated, and generate is not called.
C4_BlankChangesNothing ==
    [][ (nchats' = nchats + 1 /\ BlankText(chat'.message))
        => /\ chat'.pc = "Completed"
           /\ chat'.result.response = SayAgain
           /\ sessions' = sessions
           /\ vm' = vm
           /\ db' = db
           /\ gen_calls' = gen_calls ]_vars

C4_Witness ==
    /\ chat.pc = "Completed"
    /\ chat.message = <<" ", " ">>
    /\ chat.result.response = SayAgain
    /\ sessions[chat.user_id] = NoSession
    /\ gen_calls = 0

\* C5: under every interleaving of two profile-updating requests for the
\* same user and field with different values, a value one request wrote is
\* never replaced by the other's differing value: a request that would
\* replace it receives the conflict signal, and then writes nothing.
C5_NoSilentOverwrite ==
    [][ \A u \in AppUsers, field \in {"name", "location"} :
          LET stored == profile_get(get_user_profile(db, u), field)
              after == profile_get(get_user_profile(db', u), field)
          IN truthy(stored) => PyEq(after, stored) ]_vars

\* -------------------------------------------- claims: profile store, again
\* C11: a profile write (upsert_user_profile or update_user_profile) whose
\* preferences value is neither a list nor a mapping fails and leaves storage
\* exactly as before the call: no row is created, and in the multi-field
\* variant none of the other fields of the call is applied.
BadPreferences(call) ==
    \/ /\ call.op = "upsert_user_profile"
       /\ call.field = "preferences"
       /\ call.value.t \notin {"list", "dict"}
    \/ /\ call.op = "update_user_profile"
       /\ \E i \in 1..Len(call.updates) :
             /\ call.updates[i].field = "preferences"
             /\ call.updates[i].value.t \notin {"list", "dict"}

C11_BadPreferencesRolledBack ==
    [][ BadPreferences(pcall')
        => /\ pcall'.out = "False"
           /\ db' = db ]_vars

C11_Witness ==
    /\ pcall.op = "update_user_profile"
    /\ BadPreferences(pcall)
    /\ pcall.updates[1].field = "name"
    /\ pcall.out = "False"
    /\ ~db[pcall.user_id].present

\* ------------------------------------------------ claims: retrieve_memories
\* C12: retrieve_memories on a VectorMemory with no items, or with an empty
\* or whitespace-only query, returns an empty list, raises nothing, and
\* changes neither the index nor the item list.
C12_EmptyOrBlankRetrievesNothing ==
    [][ (vcall'.op = "retrieve_memories"
         /\ (vm.data = <<>> \/ BlankText(vcall'.query)))
        => /\ vcall'.memories = <<>>
           /\ vm'.index = vm.index
           /\ vm'.data = vm.data ]_vars

C12_Witness ==
    /\ vcall.op = "retrieve_memories"
    /\ vcall.query = <<" ">>
    /\ vcall.user_id = "u1"
    /\ vcall.k = 2
    /\ vcall.memories = <<>>
    /\ \E i \in 1..Len(vm.data) : vm.data[i].user_id = "u1"

Succeeded(c) ==
    c.outcomes # <<>> /\ c.outcomes[Len(c.outcomes)].kind = "text"

\* C14: for every retry_count >= 0 and every pattern of provider failures,
\* generate(prompt) returns after at most retry_count + 1 provider attempts
\* the text of the first successful attempt, or the fixed fallback when every
\* attempt failed; call_count has then grown by exactly 1 after a success
\* and by 0 when all attempts failed.
C14_GenerateRetriesThenFallsBack ==
    (llm.pc = "returned" /\ ~BlankText(llm.prompt))
        => /\ Len(llm.outcomes) <= llm.retry_count + 1
           /\ \A i \in 1..(Len(llm.outcomes) - 1) : llm.outcomes[i].kind # "text"
           /\ IF Succeeded(llm)
              THEN /\ llm.ret = strip(llm.outcomes[Len(llm.outcomes)].text)
                   /\ llm.call_count = llm.count0 + 1
              ELSE /\ Len(llm.outcomes) = llm.retry_count + 1
                   /\ llm.ret = Fallback
                   /\ llm.call_count = llm.count0

\* --------------------------------------------------------- claims: replies
\* C15: every value returned by chat(user_id, message), on every path (blank
\* message, conflict, normal reply), contains all four fields: the response
\* text, the echoed user_id, a timestamp and the profile_updated flag.
C15_ReplyHasFourFields ==
    chat.pc = "Completed"
        => /\ chat.result.keys
                = {"response", "user_id", "timestamp", "profile_updated"}
           /\ chat.result.user_id = chat.user_id

\* ----------------------------------------------- claims: ShortTermMemory.get
\* C16: the value returned by ShortTermMemory.get (include_system true or
\* false) is a snapshot: no mutation the caller performs on it (adding or
\* removing entries, changing the role or content of a returned message)
\* changes what a later get returns or the buffer's internal messages.
C16_GetReturnsSnapshot ==
    [][ stmCall'.op = "get"
        => /\ stm'.messages = stm.messages
           /\ \A include_system \in BOOLEAN :
                 get(stm', include_system) = get(stm, include_system) ]_vars

\* ------------------------------------------- claims: system messages kept
\* C17: no add call, whether it trims by turn count or by token budget, ever
\* removes a system message: the system messages held after add are those
\* held before, plus the added one if its role is system. set_system_message
\* leaves exactly one system message, placed first, and the non-system
\* messages unchanged in order; clear with keep_system keeps them all.
C17_SystemMessagesKept ==
    [][ /\ stmCall'.op = "add"
           => SystemOnly(stm'.messages)
                 = SystemOnly(stm.messages)
                   \o (IF stmOut' # "ValueError" /\ stmCall'.role = "system"
                       THEN <<[role |-> "system",
                               content |-> strip(stmCall'.content)]>>
                       ELSE <<>>)
        /\ stmCall'.op = "set_system_message"
           => stm'.messages
                 = <<[role |-> "system", content |-> stmCall'.content]>>
                   \o NonSystem(stm.messages)
        /\ (stmCall'.op = "clear" /\ stmCall'.keep_system)
           => stm'.messages = SystemOnly(stm.messages) ]_vars

C17_Witness ==
    /\ stmCall.op = "add"
    /\ stmOut = "ok"
    /\ ~stm.max_tokens.null
    /\ Len(added) = 3
    /\ added[1].role = "system"
    /\ Len(stm.messages) = 2
    /\ stm.messages[1].role = "system"
    /\ stm.max_turns = 2

\* ---------------------------------------- claims: multi-field profile write
\* C18: update_user_profile(u, updates) in which at least one key is outside
\* {name, location, preferences, tone} fails before any write: no row is
\* created for u and none of the valid fields of the call is applied.
C18_InvalidKeyRejectsAll ==
    [][ (pcall'.op = "update_user_profile"
         /\ \E i \in 1..Len(pcall'.updates) :
               pcall'.updates[i].field
                  \notin {"name", "location", "preferences", "tone"})
        => (pcall'.out = "ValueError" /\ db' = db) ]_vars

C18_Witness ==
    /\ pcall.op = "update_user_profile"
    /\ pcall.out = "ValueError"
    /\ pcall.updates[1].field = "tone"
    /\ ~db[pcall.user_id].present

\* ---------------------------------------------------- claims: the prompt
\* C19: for every profile, memory and history state the prompt built by
\* _build_context contains a block label (USER PROFILE, RELEVANT PAST
\* CONTEXT, CURRENT CONVERSATION) only when at least one entry line follows
\* it; a profile row whose fields are all null or empty produces no USER
\* PROFILE label.
C19_NoEmptyBlock ==
    chat.pc = "ContextAssembled"
        => \A i \in 1..Len(chat.context) :
              chat.context[i].kind = "label"
                 => /\ i < Len(chat.context)
                    /\ chat.context[i + 1].kind = "entry"

\* ------------------------------------------- claims: what is retrieved
\* the positions in v.data of what a retrieval is to return: the items of
\* user u among the min(N, 10 * k) stored vectors nearest to the query (equal
\* distances by position), without those farther than min_similarity,
\* nearest first, and the first k of them
RECURSIVE Tabulate(_, _)
Tabulate(F(_), n) == IF n = 0 THEN <<>> ELSE Append(Tabulate(F, n - 1), F(n))

Nearest(v, u, q, k, ms) ==
    LET n == Len(v.index)
        at == encode(strip(q))
        dist == Tabulate(LAMBDA i : l2(v.index[i], at), n)
        rank == Tabulate(LAMBDA i :
                           Cardinality({ j \in 1..n :
                                           \/ dist[j] < dist[i]
                                           \/ dist[j] = dist[i] /\ j < i }), n)
        eligible == { i \in 1..n :
                        /\ rank[i] < k * OverFetch
                        /\ v.data[i].user_id = u
                        /\ ms.null \/ dist[i] <= ms.v }
        place == Tabulate(LAMBDA i :
                            1 + Cardinality({ j \in eligible :
                                                rank[j] < rank[i] }), n)
        m == IF Cardinality(eligible) < k THEN Cardinality(eligible) ELSE k
    IN Tabulate(LAMBDA p : CHOOSE i \in eligible : place[i] = p, m)

\* C20: retrieve_memories(u, q, k) returns at most k items, ordered by
\* non-decreasing distance to the query, and they are exactly the first k
\* items of user u (after dropping those farther than min_similarity when it
\* is given) among the min(N, 10 * k) globally nearest of the N stored items.
C20_FirstKOfNearest ==
    [][ (vcall'.op = "retrieve_memories" /\ vm.data # <<>>
         /\ ~BlankText(vcall'.query))
        => LET ret == vcall'.memories
               q == vcall'.query
               expected == Nearest(vm, vcall'.user_id, q, vcall'.k,
                                   vcall'.min_similarity)
           IN /\ Len(ret) <= vcall'.k
              /\ Len(ret) = Len(expected)
              /\ \A p \in 1..(Len(ret) - 1) :
                    ret[p].distance <= ret[p + 1].distance
              /\ \A p \in 1..Len(ret) :
                    /\ ret[p].user_id = vcall'.user_id
                    /\ ret[p].text = vm.data[expected[p]].text
                    /\ ret[p].timestamp = vm.data[expected[p]].timestamp
                    /\ ret[p].distance
                          = l2(vm.index[expected[p]], encode(strip(q))) ]_vars

C20_Witness ==
    /\ vcall.op = "retrieve_memories"
    /\ vcall.user_id = "u2"
    /\ vcall.k = 1
    /\ vcall.query = <<"a">>
    /\ vcall.memories = <<>>
    /\ Len(vm.data) > OverFetch
    /\ \E i \in 1..Len(vm.data) : vm.data[i].user_id = "u2"

\* ------------------------------------------------- claims: the chat turn
\* C21: when chat returns the generated reply, profile_updated is true if
\* and only if at least one profile field of the user was actually written
\* during that turn; it is false when every attempted upsert reported
\* failure.
C21_FlagMeansWritten ==
    (chat.pc = "Completed" /\ "profile_updated" \in chat.result.keys)
        => (chat.result.profile_updated <=> chat.wrote # {})

\* C22: in a chat turn with a non-blank message the steps happen in this
\* order, each at most once: user turn appended, context assembled,
\* generation invoked, assistant turn appended, summary stored, profile
\* updates extracted and checked. The context is assembled with the user
\* message already in the buffer, and before the summary is stored and
\* before any profile write of the turn.
TurnSteps ==
    <<"BufferedUserTurn", "ContextAssembled", "AwaitingGeneration",
      "BufferedAssistantTurn", "ExtractingUpdates">>
StepNo(pc) == CHOOSE n \in 1..Len(TurnSteps) : TurnSteps[n] = pc
LastMessage(u) ==
    LET ms == sessions[u].mem.messages IN ms[Len(ms)]
C22_StepsInOrder ==
    [][ /\ (chat.pc \notin NotInFlight /\ chat'.pc # chat.pc)
            => \/ chat'.pc \in {"Completed", "Raised"}
               \/ /\ chat'.pc \notin NotInFlight
                  /\ StepNo(chat'.pc) = StepNo(chat.pc) + 1
        /\ (chat.pc \in NotInFlight /\ chat'.pc \notin NotInFlight)
            => chat'.pc = "BufferedUserTurn"
        /\ sessions' # sessions
            => \/ /\ chat.pc \in NotInFlight
                  /\ chat'.pc = "BufferedUserTurn"
               \/ /\ chat.pc = "AwaitingGeneration"
                  /\ chat'.pc = "BufferedAssistantTurn"
        /\ (chat.pc \notin NotInFlight /\ chat'.context # chat.context)
            => (chat.pc = "BufferedUserTurn" /\ chat'.pc = "ContextAssembled")
        /\ gen_calls' # gen_calls
            => (chat.pc = "ContextAssembled"
                /\ chat'.pc = "AwaitingGeneration")
        /\ vm' # vm
            => /\ chat.pc = "BufferedAssistantTurn"
               /\ chat'.pc \in {"ExtractingUpdates", "Raised"}
        /\ (db' # db /\ rt' = rt)
            => (chat.pc = "ExtractingUpdates"
                /\ chat'.pc = "ExtractingUpdates")
        /\ (chat.pc # "ContextAssembled" /\ chat'.pc = "ContextAssembled")
            => /\ vm' = vm /\ db' = db /\ sessions' = sessions
               /\ LastMessage(chat.user_id).role = "user"
               /\ LastMessage(chat.user_id).content = chat.message
        /\ (chat.pc # "BufferedAssistantTurn"
            /\ chat'.pc = "BufferedAssistantTurn")
            => /\ LastMessage(chat.user_id)'.role = "assistant"
               /\ vm' = vm /\ db' = db ]_vars
C22_Witness ==
    /\ chat.pc = "Completed"
    /\ chat.wrote # {}
    /\ chat.context # <<>>
    /\ gen_calls > 0
    /\ vm.data # <<>>
    /\ LastMessage(chat.user_id).role = "assistant"

\* ----------------------------------------------- claims: the token budget
RECURSIVE total_length(_)
total_length(msgs) ==
    IF msgs = <<>> THEN 0
    ELSE Len(Head(msgs).content) + total_length(Tail(msgs))

IsSuffix(a, b) ==
    Len(a) <= Len(b) /\ a = SubSeq(b, Len(b) - Len(a) + 1, Len(b))

\* the messages held before an add call returned, with the added one
WithAdded ==
    Append(stm.messages, [role |-> stmCall'.role,
                          content |-> strip(stmCall'.content)])

\* C23: for a buffer with a token budget, when add returns either the total
\* content length of the held messages divided by 4 is at most max_tokens
\* or only one message remains, and only the oldest non-system messages
\* were dropped.
C23_UnderBudgetOrOneLeft ==
    [][ (stmCall'.op = "add" /\ stmOut' = "ok" /\ ~stm.max_tokens.null)
        => /\ \/ total_length(stm'.messages) \div 4 <= stm.max_tokens.v
              \/ Len(stm'.messages) <= 1
           /\ SystemOnly(stm'.messages) = SystemOnly(WithAdded)
           /\ IsSuffix(NonSystem(stm'.messages), NonSystem(WithAdded)) ]_vars

\* ------------------------------------------- claims: metadata alignment
\* positions of the system (sys = TRUE) or non-system messages of msgs
Positions(msgs, sys) ==
    SelectSeq([i \in 1..Len(msgs) |-> i],
              LAMBDA i : (msgs[i].role = "system") = sys)
Stamps(meta, pos) == [j \in 1..Len(pos) |-> meta[pos[j]]]
LastN(seq, n) == SubSeq(seq, Len(seq) - n + 1, Len(seq))

\* the stamps of the messages an add call kept, in the order it holds them:
\* those of the system messages, then those of the kept non-system ones
StampsAfterAdd ==
    LET meta == Append(stm.metadata,
                       [timestamp |-> clock,
                        char_count |-> Len(stmCall'.content)])
        kept == Len(NonSystem(stm'.messages))
    IN Stamps(meta, Positions(WithAdded, TRUE))
       \o Stamps(meta, LastN(Positions(WithAdded, FALSE), kept))

\* C24: after any sequence of add, set_system_message and clear the metadata
\* list is as long as the message list and the entry at position i is the
\* one stamped when the message at position i was added: each operation on
\* an aligned buffer leaves the stamps of exactly the messages it keeps, in
\* their order.
C24_MetadataAligned ==
    [][ Len(stm.metadata) = Len(stm.messages)
        => /\ Len(stm'.metadata) = Len(stm'.messages)
           /\ (stmCall'.op = "add" /\ stmOut' = "ok")
              => stm'.metadata = StampsAfterAdd
           /\ stmCall'.op = "set_system_message"
              => stm'.metadata
                    = <<[timestamp |-> clock,
                         char_count |-> Len(stmCall'.content)]>>
                      \o Stamps(stm.metadata, Positions(stm.messages, FALSE))
           /\ (stmCall'.op = "clear" /\ stmCall'.keep_system)
              => stm'.metadata
                    = Stamps(stm.metadata, Positions(stm.messages, TRUE)) ]_vars

\* ------------------------------------------------ claims: add terminates
\* C25: every add call on a buffer with a token budget terminates, also
\* when the buffer holds two or more system messages and no non-system
\* message while over the budget.
C25_AddTerminates ==
    (stmCall.op = "add" /\ ~stm.max_tokens.null) => stmOut # "hang"

\* --------------------------------------- claims: the conflict path of chat
\* the fields the turn wrote with a value other than the one the row held
\* when the turn began
ChangedByTurn ==
    { f \in chat.wrote :
        \E i \in 1..Len(chat.updates) :
            /\ chat.updates[i].field = f
            /\ chat.row0[f] # chat.updates[i].value }

\* C26: when a chat turn returns the conflict clarifying question, no
\* profile field of that user was changed by that turn, also when the
\* message yields a name and a location and only the later-checked field
\* conflicts.
C26_ConflictChangesNothing ==
    (chat.pc = "Completed" /\ chat.conflict # "") => ChangedByTurn = {}

\* the assistant messages user u's buffer holds
AssistantTurns(u) ==
    SelectSeq(sessions[u].mem.messages, LAMBDA m : m.role = "assistant")

\* C27: after every completed chat turn with a non-blank message the last
\* assistant message in the user's buffer has the content of the response
\* chat returned, on the normal path and on the conflict path alike.
C27_BufferHoldsReturnedReply ==
    (chat.pc = "Completed" /\ ~blank_message(chat.message))
        => /\ AssistantTurns(chat.user_id) # <<>>
           /\ LET turns == AssistantTurns(chat.user_id) IN
              turns[Len(turns)].content = chat.result.response

\* C28: every chat call with a non-blank message reaches Completed and
\* returns a response without raising, for every message text and every
\* text the generation returns; no turn stops with some memory tiers
\* written and no response returned.
C28_ChatNeverRaises ==
    ~blank_message(chat.message) => chat.pc # "Raised"

\* ------------------------------------------------- claims: store_batch
\* input positions of the texts store_batch does not skip
RECURSIVE NonBlankPositions(_, _)
NonBlankPositions(texts, i) ==
    IF i > Len(texts) THEN <<>>
    ELSE (IF BlankText(texts[i]) THEN <<>> ELSE <<i>>)
         \o NonBlankPositions(texts, i + 1)

\* the metadata the caller supplied for input position p
SuppliedAt(metadata_list, p) ==
    IF metadata_list.null \/ p > Len(metadata_list.v) THEN EmptyDict
    ELSE metadata_list.v[p]

\* C29: store_batch(u, texts, metadata_list) returns the number of
\* non-blank texts, appends exactly that many items in input order, and each
\* stored item carries the metadata entry supplied at the input position of
\* its text, also when blank texts precede it.
C29_BatchKeepsMetadataPosition ==
    [][ vcall'.op = "store_batch"
        => LET pos == NonBlankPositions(vcall'.texts, 1)
               n == Len(vm.data)
           IN /\ vcall'.ret = Len(pos)
              /\ Len(vm'.data) = n + Len(pos)
              /\ SubSeq(vm'.data, 1, n) = vm.data
              /\ \A j \in 1..Len(pos) :
                    /\ vm'.data[n + j].user_id = vcall'.user_id
                    /\ vm'.data[n + j].text = strip(vcall'.texts[pos[j]])
                    /\ vm'.data[n + j].metadata
                          = SuppliedAt(vcall'.metadata_list, pos[j]) ]_vars

\* ------------------------------------- claims: constructing from disk
\* C30: constructing a VectorMemory from any on-disk state (both artifacts
\* present and readable, either one missing or unreadable, or the pair left
\* by a process that stopped between writing the index artifact and writing
\* the data artifact) does not raise, and the loaded index and item list
\* have the same number of entries.
C30_LoadedPairSameLength ==
    vcall.op = "__init__" => Len(vm.index) = Len(vm.data)

\* ------------------------------------------- claims: the memories route
MemoryLimits == 1..2

\* C31: after a chat turn with a non-blank message for user u completes,
\* get_recent_memories(u, limit >= 1) served by the same process returns a
\* list whose newest entry is the summary stored for that turn.
C31_TurnSummaryIsNewest ==
    (chat.pc = "Completed" /\ ~blank_message(chat.message))
        => \A limit \in MemoryLimits :
              LET listed == get_memories(chat.user_id, limit) IN
              /\ listed # <<>>
              /\ listed[1].text
                    = strip(SummaryPrefix \o slice_to(chat.message, SummaryLen))
====
